---- MODULE Spec2Model ----
(***************************************************************************)
(* BRD_DATAMODEL: the JSON data model, the Schema Validator                *)
(* (tests/test_data_model.py), the Layout Engine (generators.py,           *)
(* generate_drawio), the Report Renderers and the visualisation step of    *)
(* the pipeline (run_full_pipeline.py, cursor_workflow.py).                *)
(***************************************************************************)
EXTENDS Integers, Sequences, FiniteSets, TLC

VARIABLES
    data_model,   \* the decoded JSON value handed to the operation under study
    id_counter,   \* generate_drawio's id counter (generators.py:82)
    output,       \* what the last generate_drawio call returned
    first_output, \* what the first generate_drawio call on data_model returned
    calls,        \* the calls made so far, in order
    defects,      \* how the input departs from the well-formed base model
    result,       \* the last operation run and what it returned
    pc,           \* where step4_generate_visualizations stands
    env,          \* the response file and the output directory of the run
    files,        \* the output files written so far
    log           \* what the run has printed, in order

pipelineVars == <<pc, env, files, log>>

vars == <<data_model, id_counter, output, first_output, calls, defects, result, pipelineVars>>

(***************************************************************************)
(* Decoded JSON values (json.loads) as tagged values, and the Python       *)
(* operations the code applies to them.  A string's payload is a TLA+      *)
(* string; a mapping's payload is a record; a list's payload a sequence.   *)
(***************************************************************************)
JNull == [t |-> "null"]
JBool(b) == [t |-> "bool", v |-> b]
JNum(n) == [t |-> "num", v |-> n]
JStr(s) == [t |-> "str", v |-> s]
JList(s) == [t |-> "list", v |-> s]
JDict(r) == [t |-> "dict", v |-> r]
EmptyDict == [t |-> "dict", v |-> <<>>]

\* The outcome of an operation that raised instead of returning.
Raised == [t |-> "raised"]

IsDict(x) == x.t = "dict"
IsList(x) == x.t = "list"
IsStr(x) == x.t = "str"

\* bool(x)
Truthy(x) ==
    CASE x.t = "null" -> FALSE
      [] x.t = "bool" -> x.v
      [] x.t = "num" -> x.v # 0
      [] x.t = "str" -> x.v # ""
      [] x.t = "list" -> Len(x.v) > 0
      [] x.t = "dict" -> DOMAIN x.v # {}
      [] OTHER -> FALSE

\* `k in x` for a mapping x.
HasKey(x, k) == IsDict(x) /\ k \in DOMAIN x.v

\* x.get(k, d): AttributeError on anything but a mapping.
PyGet(x, k, d) ==
    IF ~IsDict(x) THEN Raised
    ELSE IF k \in DOMAIN x.v THEN x.v[k] ELSE d

\* x[k]: KeyError when the key is missing, TypeError on a value that cannot be
\* indexed by a string.
PySubscript(x, k) ==
    IF IsDict(x) /\ k \in DOMAIN x.v THEN x.v[k] ELSE Raised

\* What `for e in x` iterates over: the items of a list, the keys of a mapping,
\* the characters of a string (the model's strings used in the place of a list
\* are one character long or empty); TypeError on null, booleans and numbers.
Iterable(x) == x.t \in {"list", "dict", "str"}

RECURSIVE SetToSeq(_)
SetToSeq(S) ==
    IF S = {} THEN <<>>
    ELSE LET e == CHOOSE e \in S : TRUE IN <<e>> \o SetToSeq(S \ {e})

PyIter(x) ==
    CASE x.t = "list" -> x.v
      [] x.t = "dict" -> [i \in 1..Len(SetToSeq(DOMAIN x.v)) |-> JStr(SetToSeq(DOMAIN x.v)[i])]
      [] x.t = "str" -> IF x.v = "" THEN <<>> ELSE <<JStr(x.v)>>
      [] OTHER -> <<>>

\* len(x): TypeError on null, booleans and numbers.
Sized(x) == x.t \in {"list", "dict", "str"}

\* The text an f-string or an XML attribute shows for a value.
Text(x) == IF IsStr(x) THEN x.v ELSE "?"

RECURSIVE SumSeq(_)
SumSeq(s) == IF s = <<>> THEN 0 ELSE Head(s) + SumSeq(Tail(s))

Max(a, b) == IF a >= b THEN a ELSE b

(***************************************************************************)
(* Layout Engine: generators.py, generate_drawio.                          *)
(***************************************************************************)
ENTITY_X == -101
ENTITY_Y_START == 127
ENTITY_WIDTH == 90
ENTITY_HEIGHT == 20
FIELD_X == -27
FIELD_WIDTH == 166
FIELD_HEIGHT == 20
FIELD_Y_START == 165
FIELD_SPACING == 28
FIELD_GROUP_X == -29
FIELD_GROUP_WIDTH == 158
EXPANDED_X == 175
EXPANDED_WIDTH == 146
LOOKUP_ICON_SIZE == 17
CONTAINER_X == -121
CONTAINER_Y == 80
MIN_CONTAINER_HEIGHT == 806
MIN_CONTAINER_WIDTH == 729
MIN_PAGE_HEIGHT == 1100
LABEL_PADDING == 15
LABEL_GAP == 12
LABEL_HEIGHT == 20
FIRST_ID == 2

\* No cell: the source and target of a vertex.
NoId == 0 - 1

\* entities = data_model.get('dataModel', {}).get('entities', [])
EntitiesOf(dm) == PyIter(PyGet(PyGet(dm, "dataModel", EmptyDict), "entities", JList(<<>>)))

IsBusinessEntity(e) == PyGet(e, "type", JNull) = JStr("BusinessEntity")

\* The filter dropped: every entity is drawn.
BusinessEntitiesMutant(dm) == EntitiesOf(dm)

\* business_entities = [e for e in entities if e.get('type') == 'BusinessEntity']
BusinessEntities(dm) == SelectSeq(EntitiesOf(dm), IsBusinessEntity)

FieldsOf(entity) == PyIter(PyGet(entity, "fields", JList(<<>>)))

\* Any value but null and the meta label is a group label.
IsGroupedMutant(field) ==
    LET fg == PyGet(field, "fieldGroup", JNull)
    IN  fg # JNull /\ fg # JStr("_meta")

\* `if fg and fg != '_meta'` of the three partition loops
\* (generators.py:168, 189, 314).
IsGrouped(field) ==
    LET fg == PyGet(field, "fieldGroup", JNull)
    IN  Truthy(fg) /\ fg # JStr("_meta")

IsStandalone(field) == ~IsGrouped(field)

\* The fields of the meta group left out.
StandaloneFieldsMutant(fields) ==
    LET Ungrouped(f) == ~Truthy(PyGet(f, "fieldGroup", JNull))
    IN  SelectSeq(fields, Ungrouped)

\* standalone_fields, in field order.
StandaloneFields(fields) == SelectSeq(fields, IsStandalone)

\* The keys of field_groups_dict in insertion (first-seen) order.
RECURSIVE GroupNames(_)
GroupNames(fields) ==
    IF fields = <<>> THEN <<>>
    ELSE LET front == SubSeq(fields, 1, Len(fields) - 1)
             last == fields[Len(fields)]
             fg == PyGet(last, "fieldGroup", JNull)
             before == GroupNames(front)
         IN  IF IsGrouped(last) /\ ~(\E i \in 1..Len(before) : before[i] = fg)
             THEN Append(before, fg)
             ELSE before

\* field_groups_dict[fg], in field order.
GroupFields(fields, fg) ==
    LET InGroup(f) == IsGrouped(f) /\ PyGet(f, "fieldGroup", JNull) = fg
    IN  SelectSeq(fields, InGroup)

\* One row per group, whatever its size.
EntityRowsMutant(entity) ==
    Len(StandaloneFields(FieldsOf(entity))) + Len(GroupNames(FieldsOf(entity)))

\* The sizing pass: total_standalone_fields + sum of max(1, fg_count).
EntityRows(entity) ==
    LET fields == FieldsOf(entity)
        names == GroupNames(fields)
    IN  Len(StandaloneFields(fields))
        + SumSeq([i \in 1..Len(names) |-> Max(1, Len(GroupFields(fields, names[i])))])

TotalRows(dm) ==
    LET be == BusinessEntities(dm)
    IN  SumSeq([i \in 1..Len(be) |-> EntityRows(be[i])])

ContainerHeight(dm) ==
    Max(MIN_CONTAINER_HEIGHT,
        (FIELD_Y_START + (TotalRows(dm) + 2) * FIELD_SPACING) - CONTAINER_Y + 50)

ContainerWidth == Max(MIN_CONTAINER_WIDTH, EXPANDED_X + EXPANDED_WIDTH + 50 - CONTAINER_X)

PageHeight(dm) == Max(MIN_PAGE_HEIGHT, ContainerHeight(dm) + 200)

\* create_mxcell; role tells which statement of generate_drawio emitted the cell.
CreateMxCell(cell_id, role, value, style, x, y, width, height) ==
    [id |-> cell_id, role |-> role, value |-> value, style |-> style,
     x |-> x, y |-> y, width |-> width, height |-> height,
     source |-> NoId, target |-> NoId]

\* source and target swapped.
CreateEdgeMutant(edge_id, source_id, target_id, style) ==
    [id |-> edge_id, role |-> "edge", value |-> "", style |-> style,
     x |-> 0, y |-> 0, width |-> 0, height |-> 0,
     source |-> target_id, target |-> source_id]

\* create_edge (generators.py:123-134)
CreateEdge(edge_id, source_id, target_id, style) ==
    [id |-> edge_id, role |-> "edge", value |-> "", style |-> style,
     x |-> 0, y |-> 0, width |-> 0, height |-> 0,
     source |-> source_id, target |-> target_id]

\* create_lookup_icon
CreateLookupIcon(icon_id, x, y) ==
    CreateMxCell(icon_id, "icon", "", "lookup_icon", x, y, LOOKUP_ICON_SIZE, LOOKUP_ICON_SIZE)

\* The characters of the strings that occur as field names in the model.
Spelling ==
    "a1" :> <<"a", "1">> @@
    "a2" :> <<"a", "2">> @@
    "a3" :> <<"a", "3">> @@
    "a4" :> <<"a", "4">> @@
    "a5" :> <<"a", "5">> @@
    "a6" :> <<"a", "6">> @@
    "b1" :> <<"b", "1">> @@
    "b2" :> <<"b", "2">> @@
    "b3" :> <<"b", "3">> @@
    "b4" :> <<"b", "4">> @@
    "b5" :> <<"b", "5">> @@
    "b6" :> <<"b", "6">> @@
    "c1" :> <<"c", "1">> @@
    "c2" :> <<"c", "2">> @@
    "c3" :> <<"c", "3">> @@
    "c4" :> <<"c", "4">> @@
    "c5" :> <<"c", "5">> @@
    "c6" :> <<"c", "6">> @@
    "d1" :> <<"d", "1">> @@
    "d2" :> <<"d", "2">> @@
    "d3" :> <<"d", "3">> @@
    "d4" :> <<"d", "4">> @@
    "d5" :> <<"d", "5">> @@
    "d6" :> <<"d", "6">> @@
    "Person" :> <<"P", "e", "r", "s", "o", "n">> @@
    "Student" :> <<"S", "t", "u", "d", "e", "n", "t">> @@
    "firstName" :> <<"f", "i", "r", "s", "t", "N", "a", "m", "e">> @@
    "lastName" :> <<"l", "a", "s", "t", "N", "a", "m", "e">> @@
    "phoneType" :> <<"p", "h", "o", "n", "e", "T", "y", "p", "e">> @@
    "phoneNumber" :> <<"p", "h", "o", "n", "e", "N", "u", "m", "b", "e", "r">> @@
    "extension" :> <<"e", "x", "t", "e", "n", "s", "i", "o", "n">> @@
    "personId" :> <<"p", "e", "r", "s", "o", "n", "I", "d">> @@
    "SPIDM" :> <<"S", "P", "I", "D", "M">> @@
    "cwid" :> <<"c", "w", "i", "d">> @@
    "Valid" :> <<"V", "a", "l", "i", "d">> @@
    "email" :> <<"e", "m", "a", "i", "l">> @@
    "x" :> <<"x">> @@
    "TextField" :> <<"T", "e", "x", "t", "F", "i", "e", "l", "d">> @@
    "LookupField" :> <<"L", "o", "o", "k", "u", "p", "F", "i", "e", "l", "d">> @@
    "FR-001" :> <<"F", "R", "-", "0", "0", "1">> @@
    "FR-001: text" :> <<"F", "R", "-", "0", "0", "1", ":", " ", "t", "e", "x", "t">> @@
    "FR-002" :> <<"F", "R", "-", "0", "0", "2">> @@
    "STANDARD" :> <<"S", "T", "A", "N", "D", "A", "R", "D">> @@
    "see FR-002" :> <<"s", "e", "e", " ", "F", "R", "-", "0", "0", "2">> @@
    "Standard meta field" :> <<"S", "t", "a", "n", "d", "a", "r", "d", " ", "m", "e", "t", "a", " ", "f", "i", "e", "l", "d">> @@
    "other" :> <<"o", "t", "h", "e", "r">>

Chars(s) == IF s = "" THEN <<>> ELSE Spelling[s]

\* str.lower(), on the letters that occur in upper case in Spelling.
LowerChar(c) ==
    CASE c = "P" -> "p" [] c = "S" -> "s" [] c = "I" -> "i" [] c = "D" -> "d"
      [] c = "M" -> "m" [] c = "N" -> "n" [] c = "T" -> "t" [] c = "V" -> "v"
      [] c = "F" -> "f" [] c = "R" -> "r" [] c = "L" -> "l" [] c = "A" -> "a"
      [] OTHER -> c

Lower(cs) == [i \in 1..Len(cs) |-> LowerChar(cs[i])]

\* `sub in cs` on strings.
Contains(cs, sub) ==
    \E i \in 0..(Len(cs) - Len(sub)) : SubSeq(cs, i + 1, i + Len(sub)) = sub

\* isCustom not looked at: the style goes by the group and the name alone.
GetFieldStyleMutant(field) ==
    IF PyGet(field, "fieldGroup", JNull) = JStr("_meta")
       \/ Contains(Lower(Chars(Text(PyGet(field, "name", JStr(""))))), <<"i", "d">>)
    THEN "identifier"
    ELSE "general_attribute"

\* get_field_style (generators.py:89-103).
GetFieldStyle(field) ==
    IF Truthy(PyGet(field, "isCustom", JBool(FALSE))) THEN "identifier"
    ELSE IF PyGet(field, "fieldGroup", JNull) = JStr("_meta")
            \/ LET field_name == Lower(Chars(Text(PyGet(field, "name", JStr("")))))
               IN  \/ Contains(field_name, <<"i", "d">>)
                   \/ Contains(field_name, <<"p", "i", "d", "m">>)
                   \/ Contains(field_name, <<"c", "w", "i", "d">>)
         THEN "identifier"
         ELSE "general_attribute"

\* The running state of one generate_drawio call: the id counter, the vertical
\* cursor current_field_y and the cells appended to root so far.
LayoutState(id, y, cells) == [id_counter |-> id, current_field_y |-> y, cells |-> cells]

\* Always true.  The loops below test it on the state they are given, so that
\* TLC evaluates the state of each iteration before it enters the next one,
\* instead of nesting the evaluations of all iterations at the end.
Evaluated(st) == st.id_counter \in Int

\* One iteration of `for field in standalone_fields` (generators.py:325-355).
DrawStandaloneField(st, entity_id, field) ==
    LET is_lookup == Truthy(PyGet(field, "isLookup", JBool(FALSE)))
        field_id == st.id_counter
        edge_id == st.id_counter + 1
        box == CreateMxCell(field_id, "field", Text(PyGet(field, "name", JStr("field"))),
                            GetFieldStyle(field),
                            FIELD_X, st.current_field_y, FIELD_WIDTH, FIELD_HEIGHT)
        edge == CreateEdge(edge_id, entity_id, field_id, "plain")
        icon == CreateLookupIcon(st.id_counter + 2,
                                 FIELD_X + FIELD_WIDTH - LOOKUP_ICON_SIZE - 3,
                                 st.current_field_y + ((FIELD_HEIGHT - LOOKUP_ICON_SIZE) \div 2))
    IN  LayoutState(IF is_lookup THEN st.id_counter + 3 ELSE st.id_counter + 2,
                    st.current_field_y + FIELD_SPACING,
                    st.cells \o (IF is_lookup THEN <<box, edge, icon>> ELSE <<box, edge>>))

RECURSIVE DrawStandaloneFields(_, _, _)
DrawStandaloneFields(st, entity_id, fields) ==
    IF Evaluated(st) /\ fields = <<>> THEN st
    ELSE DrawStandaloneFields(DrawStandaloneField(st, entity_id, Head(fields)),
                              entity_id, Tail(fields))

\* The children start one row below their group node.
DrawExpandedFieldMutant(st, group_id, group_field) ==
    LET is_lookup == Truthy(PyGet(group_field, "isLookup", JBool(FALSE)))
        expanded_id == st.id_counter
        box == CreateMxCell(expanded_id, "child",
                            Text(PyGet(group_field, "name", JStr("field"))),
                            GetFieldStyle(group_field),
                            EXPANDED_X, st.current_field_y + FIELD_SPACING,
                            EXPANDED_WIDTH, FIELD_HEIGHT)
        edge == CreateEdge(st.id_counter + 1, group_id, expanded_id, "expanded")
        icon == CreateLookupIcon(st.id_counter + 2,
                                 EXPANDED_X + EXPANDED_WIDTH - LOOKUP_ICON_SIZE - 3,
                                 st.current_field_y + ((FIELD_HEIGHT - LOOKUP_ICON_SIZE) \div 2))
    IN  LayoutState(IF is_lookup THEN st.id_counter + 3 ELSE st.id_counter + 2,
                    st.current_field_y + FIELD_SPACING,
                    st.cells \o (IF is_lookup THEN <<box, edge, icon>> ELSE <<box, edge>>))

\* One iteration of `for group_field in group_fields` (generators.py:388-417);
\* st.current_field_y carries expanded_y here.
DrawExpandedField(st, group_id, group_field) ==
    LET is_lookup == Truthy(PyGet(group_field, "isLookup", JBool(FALSE)))
        expanded_id == st.id_counter
        box == CreateMxCell(expanded_id, "child",
                            Text(PyGet(group_field, "name", JStr("field"))),
                            GetFieldStyle(group_field),
                            EXPANDED_X, st.current_field_y, EXPANDED_WIDTH, FIELD_HEIGHT)
        edge == CreateEdge(st.id_counter + 1, group_id, expanded_id, "expanded")
        icon == CreateLookupIcon(st.id_counter + 2,
                                 EXPANDED_X + EXPANDED_WIDTH - LOOKUP_ICON_SIZE - 3,
                                 st.current_field_y + ((FIELD_HEIGHT - LOOKUP_ICON_SIZE) \div 2))
    IN  LayoutState(IF is_lookup THEN st.id_counter + 3 ELSE st.id_counter + 2,
                    st.current_field_y + FIELD_SPACING,
                    st.cells \o (IF is_lookup THEN <<box, edge, icon>> ELSE <<box, edge>>))

RECURSIVE DrawExpandedFields(_, _, _)
DrawExpandedFields(st, group_id, group_fields) ==
    IF Evaluated(st) /\ group_fields = <<>> THEN st
    ELSE DrawExpandedFields(DrawExpandedField(st, group_id, Head(group_fields)),
                            group_id, Tail(group_fields))

\* One row per group, whatever its size.
AdvanceMutant(group_y, num_expanded) == group_y + FIELD_SPACING

\* current_field_y += max(1, num_expanded) * FIELD_SPACING (generators.py:421)
Advance(group_y, num_expanded) == group_y + Max(1, num_expanded) * FIELD_SPACING

\* The counter is advanced once for the group node and its edge: the first
\* child takes the id the edge has.
DrawFieldGroupMutant(st, entity_id, group_name, group_fields) ==
    LET group_y == st.current_field_y
        group_id == st.id_counter
        box == CreateMxCell(group_id, "group", Text(group_name), "field_group",
                            FIELD_GROUP_X, group_y, FIELD_GROUP_WIDTH, FIELD_HEIGHT)
        edge == CreateEdge(st.id_counter + 1, entity_id, group_id, "ERmany")
        after == DrawExpandedFields(
                     LayoutState(st.id_counter + 1, group_y, st.cells \o <<box, edge>>),
                     group_id, group_fields)
    IN  LayoutState(after.id_counter, Advance(group_y, Len(group_fields)), after.cells)

\* One iteration of `for group_name, group_fields in field_groups_dict.items()`
\* (generators.py:362-421).
DrawFieldGroup(st, entity_id, group_name, group_fields) ==
    LET group_y == st.current_field_y
        group_id == st.id_counter
        box == CreateMxCell(group_id, "group", Text(group_name), "field_group",
                            FIELD_GROUP_X, group_y, FIELD_GROUP_WIDTH, FIELD_HEIGHT)
        edge == CreateEdge(st.id_counter + 1, entity_id, group_id, "ERmany")
        after == DrawExpandedFields(
                     LayoutState(st.id_counter + 2, group_y, st.cells \o <<box, edge>>),
                     group_id, group_fields)
    IN  LayoutState(after.id_counter, Advance(group_y, Len(group_fields)), after.cells)

RECURSIVE DrawFieldGroups(_, _, _, _)
DrawFieldGroups(st, entity_id, fields, names) ==
    IF Evaluated(st) /\ names = <<>> THEN st
    ELSE DrawFieldGroups(
             DrawFieldGroup(st, entity_id, Head(names), GroupFields(fields, Head(names))),
             entity_id, fields, Tail(names))

\* The cursor is set back to FIELD_Y_START for every entity.
DrawEntityMutant(st, entity) ==
    LET fields == FieldsOf(entity)
        entity_id == st.id_counter
        header == CreateMxCell(entity_id, "header",
                               Text(PyGet(entity, "name", JStr("Entity"))), "business_entity",
                               ENTITY_X, ENTITY_Y_START, ENTITY_WIDTH, ENTITY_HEIGHT)
        st1 == LayoutState(st.id_counter + 1, FIELD_Y_START, Append(st.cells, header))
        st2 == DrawStandaloneFields(st1, entity_id, StandaloneFields(fields))
    IN  DrawFieldGroups(st2, entity_id, fields, GroupNames(fields))

\* One iteration of `for entity_idx, entity in enumerate(business_entities)`
\* (generators.py:296-421).
DrawEntity(st, entity) ==
    LET fields == FieldsOf(entity)
        entity_id == st.id_counter
        header == CreateMxCell(entity_id, "header",
                               Text(PyGet(entity, "name", JStr("Entity"))), "business_entity",
                               ENTITY_X, ENTITY_Y_START, ENTITY_WIDTH, ENTITY_HEIGHT)
        st1 == LayoutState(st.id_counter + 1, st.current_field_y, Append(st.cells, header))
        st2 == DrawStandaloneFields(st1, entity_id, StandaloneFields(fields))
    IN  DrawFieldGroups(st2, entity_id, fields, GroupNames(fields))

RECURSIVE DrawEntities(_, _)
DrawEntities(st, entities) ==
    IF Evaluated(st) /\ entities = <<>> THEN st
    ELSE DrawEntities(DrawEntity(st, Head(entities)), Tail(entities))

\* The legend: label_specs placed right to left (generators.py:258-288).
LabelSpecs ==
    << [text |-> "Business Entity", w |-> 97, key |-> "business_entity"],
       [text |-> "General Attributes", w |-> 109, key |-> "general_attribute"],
       [text |-> "Identifiers / Custom", w |-> 140, key |-> "identifier"],
       [text |-> "Field Groups", w |-> 112, key |-> "field_group"] >>

RECURSIVE DrawLegend(_, _, _)
DrawLegend(st, label_x, k) ==
    IF k = 0 THEN st
    ELSE LET spec == LabelSpecs[k]
             x == label_x - (spec.w + LABEL_GAP)
             cell == CreateMxCell(st.id_counter, "legend", spec.text, spec.key,
                                  x, CONTAINER_Y + LABEL_PADDING, spec.w, LABEL_HEIGHT)
         IN  DrawLegend(LayoutState(st.id_counter + 1, st.current_field_y,
                                    Append(st.cells, cell)),
                        x, k - 1)

\* The accesses of generate_drawio that raise: .get on a value that is no
\* mapping, iteration over a value that is not iterable, an unhashable group
\* label used as a dictionary key, .lower() on a name that is no string, and a
\* cell value that ElementTree cannot serialise (a name or group label that is
\* no string).
FieldRaises(field) ==
    \/ ~IsDict(field)
    \/ LET fg == PyGet(field, "fieldGroup", JNull)
           name == PyGet(field, "name", JStr("field"))
       IN  \/ (Truthy(fg) /\ fg # JStr("_meta") /\ ~IsStr(fg))
           \/ ~IsStr(name)

EntityRaises(entity) ==
    \/ ~IsDict(entity)
    \/ /\ IsBusinessEntity(entity)
       /\ LET fields == PyGet(entity, "fields", JList(<<>>))
          IN  \/ ~Iterable(fields)
              \/ \E i \in 1..Len(PyIter(fields)) : FieldRaises(PyIter(fields)[i])

DrawioRaises(dm) ==
    \/ ~IsDict(dm)
    \/ ~IsDict(PyGet(dm, "dataModel", EmptyDict))
    \/ LET entities == PyGet(PyGet(dm, "dataModel", EmptyDict), "entities", JList(<<>>))
       IN  \/ ~Iterable(entities)
           \/ \E i \in 1..Len(PyIter(entities)) : EntityRaises(PyIter(entities)[i])

\* The two reserved cells of root (generators.py:240-241).
RootCells ==
    << CreateMxCell(0, "root", "", "", 0, 0, 0, 0),
       CreateMxCell(1, "root", "", "", 0, 0, 0, 0) >>

\* generate_drawio (generators.py:12-435) with the id counter starting at
\* start_id: the cells of root in emission order, with the final values of
\* the locals total_rows and current_field_y, or Raised.
GenerateDrawio(dm, start_id) ==
    IF DrawioRaises(dm) THEN Raised
    ELSE LET container == CreateMxCell(start_id, "container", "Data Model", "container",
                                       CONTAINER_X, CONTAINER_Y,
                                       ContainerWidth, ContainerHeight(dm))
             st0 == LayoutState(start_id + 1, FIELD_Y_START, Append(RootCells, container))
             st1 == DrawLegend(st0, CONTAINER_X + ContainerWidth - LABEL_PADDING,
                               Len(LabelSpecs))
             st2 == DrawEntities(st1, BusinessEntities(dm))
         IN  [t |-> "xml", cells |-> st2.cells, id_counter |-> st2.id_counter,
              pageHeight |-> PageHeight(dm),
              total_rows |-> TotalRows(dm), current_field_y |-> st2.current_field_y]

\* A counter that outlives the call.
NewIdCounterMutant(previous) == previous

\* id_counter = [2] (generators.py:82): a list local to the call, so every call
\* starts from 2 whatever the previous call left.
NewIdCounter(previous) == FIRST_ID

(***************************************************************************)
(* The data models the Layout Engine is run on.                            *)
(***************************************************************************)
MaxEntities == 2
MaxFields == 2
MaxCalls == 3

\* fieldGroup / isLookup of a field: no group (null, the empty string, the meta
\* group) or one of two groups; lookup or not.
FieldShapes ==
    { [fg |-> JNull, lk |-> TRUE], [fg |-> JStr(""), lk |-> FALSE],
      [fg |-> JStr("_meta"), lk |-> FALSE],
      [fg |-> JStr("Phone"), lk |-> FALSE], [fg |-> JStr("Address"), lk |-> TRUE] }

\* A ReferenceEntity of the models: a code field and a grouped lookup field.
ReferenceShape ==
    [type |-> "ReferenceEntity",
     fields |-> << [fg |-> JNull, lk |-> FALSE], [fg |-> JStr("Phone"), lk |-> TRUE] >>]

EntityNameTable == <<"E1", "E2", "E3", "E4">>
FieldNameTable ==
    << <<"a1", "a2", "a3", "a4", "a5", "a6">>,
       <<"b1", "b2", "b3", "b4", "b5", "b6">>,
       <<"c1", "c2", "c3", "c4", "c5", "c6">>,
       <<"d1", "d2", "d3", "d4", "d5", "d6">> >>

RECURSIVE FieldShapeSeqs(_)
FieldShapeSeqs(n) ==
    IF n = 0 THEN {<<>>}
    ELSE {Append(s, f) : s \in FieldShapeSeqs(n - 1), f \in FieldShapes}

\* The sequences of k entities whose BusinessEntities have at most b fields in
\* all.
RECURSIVE EntityShapeSeqs(_, _)
EntityShapeSeqs(k, b) ==
    IF k = 0 THEN {<<>>}
    ELSE {Append(s, ReferenceShape) : s \in EntityShapeSeqs(k - 1, b)}
         \cup UNION { {Append(s, [type |-> "BusinessEntity", fields |-> fs]) :
                          s \in EntityShapeSeqs(k - 1, b - n),
                          fs \in FieldShapeSeqs(n)} : n \in 0..b }

MkField(name, shape) ==
    JDict([name |-> JStr(name), fieldGroup |-> shape.fg, isLookup |-> JBool(shape.lk)])

MkEntity(i, shape) ==
    JDict([name |-> JStr(EntityNameTable[i]), type |-> JStr(shape.type),
           fields |-> JList([j \in 1..Len(shape.fields) |->
                                 MkField(FieldNameTable[i][j], shape.fields[j])])])

\* The response file's shape: the model under 'dataModel'.
MkModel(shapes) ==
    JDict([dataModel |->
              JDict([entities |-> JList([i \in 1..Len(shapes) |-> MkEntity(i, shapes[i])]),
                     relationships |-> JList(<<>>)])])

LayoutModels == {MkModel(s) : s \in UNION {EntityShapeSeqs(k, MaxFields) : k \in 0..MaxEntities}}

\* Larger models: a group of two fields before a standalone field; two
\* BusinessEntities that use the same group label around a ReferenceEntity.
LargerModels ==
    { MkModel(<< [type |-> "BusinessEntity",
                  fields |-> << [fg |-> JStr("Phone"), lk |-> FALSE],
                                [fg |-> JStr("Phone"), lk |-> TRUE],
                                [fg |-> JNull, lk |-> FALSE] >>] >>),
      MkModel(<< [type |-> "BusinessEntity",
                  fields |-> << [fg |-> JStr("Phone"), lk |-> TRUE],
                                [fg |-> JStr(""), lk |-> FALSE],
                                [fg |-> JStr("Phone"), lk |-> FALSE],
                                [fg |-> JStr("Address"), lk |-> FALSE] >>],
                 ReferenceShape,
                 [type |-> "BusinessEntity",
                  fields |-> << [fg |-> JStr("_meta"), lk |-> FALSE],
                                [fg |-> JStr("Phone"), lk |-> FALSE],
                                [fg |-> JNull, lk |-> TRUE] >>] >>) }

\* Scenario A: one BusinessEntity "Person" with 2 standalone fields and one
\* group "Phone" of 3 fields.
ScenarioA ==
    JDict([dataModel |-> JDict([relationships |-> JList(<<>>), entities |-> JList(<<
        JDict([name |-> JStr("Person"), type |-> JStr("BusinessEntity"), fields |-> JList(<<
            JDict([name |-> JStr("firstName"), fieldGroup |-> JNull, isLookup |-> JBool(FALSE)]),
            JDict([name |-> JStr("lastName"), fieldGroup |-> JNull, isLookup |-> JBool(FALSE)]),
            JDict([name |-> JStr("phoneType"), fieldGroup |-> JStr("Phone"), isLookup |-> JBool(TRUE)]),
            JDict([name |-> JStr("phoneNumber"), fieldGroup |-> JStr("Phone"), isLookup |-> JBool(FALSE)]),
            JDict([name |-> JStr("extension"), fieldGroup |-> JStr("Phone"), isLookup |-> JBool(FALSE)])
        >>)]) >>)])])

\* Another model of the same process: a group before a standalone field.
OtherModel ==
    JDict([dataModel |-> JDict([relationships |-> JList(<<>>), entities |-> JList(<<
        JDict([name |-> JStr("Student"), type |-> JStr("BusinessEntity"), fields |-> JList(<<
            JDict([name |-> JStr("email"), fieldGroup |-> JStr("Contact"), isLookup |-> JBool(FALSE)]),
            JDict([name |-> JStr("personId"), fieldGroup |-> JNull, isLookup |-> JBool(TRUE)])
        >>)]) >>)])])

\* Models for the node styles: one BusinessEntity with one field, over the
\* inputs get_field_style reads (isCustom absent, true or false; no group, the
\* meta group or a group; names with and without an identifier token, in
\* either case) and isLookup.
StyleNames == {"firstName", "email", "personId", "SPIDM", "cwid", "Valid"}
StyleGroups == {JNull, JStr("_meta"), JStr("Phone")}
StyleCustom == {"absent", "true", "false"}

MkStyledField(name, fg, custom, lk) ==
    IF custom = "absent"
    THEN JDict([name |-> JStr(name), fieldGroup |-> fg, isLookup |-> JBool(lk)])
    ELSE JDict([name |-> JStr(name), fieldGroup |-> fg, isLookup |-> JBool(lk),
                isCustom |-> JBool(custom = "true")])

StyledModels ==
    { JDict([dataModel |-> JDict([relationships |-> JList(<<>>), entities |-> JList(<<
          JDict([name |-> JStr("Person"), type |-> JStr("BusinessEntity"),
                 fields |-> JList(<<MkStyledField(name, fg, custom, lk)>>)]) >>)])]) :
        name \in StyleNames, fg \in StyleGroups, custom \in StyleCustom, lk \in BOOLEAN }

\* A model tall enough for the container to grow past its minimum height and
\* for its last rows to lie below where the minimum container ends: 28 fields
\* in five BusinessEntities, standalone and in groups of 1, 2, 3 and 6.
TallModel ==
    LET S == [fg |-> JNull, lk |-> FALSE]
        P == [fg |-> JStr("Phone"), lk |-> FALSE]
        A == [fg |-> JStr("Address"), lk |-> TRUE]
        shapes == << [type |-> "BusinessEntity", fields |-> <<S, S, S, S, S, S>>],
                     [type |-> "BusinessEntity", fields |-> <<P, P, P, P, P, P>>],
                     [type |-> "BusinessEntity", fields |-> <<P, A, P, A, P, A>>],
                     [type |-> "BusinessEntity",
                      fields |-> << [fg |-> JStr(""), lk |-> FALSE],
                                    [fg |-> JStr("_meta"), lk |-> FALSE], P, A, P, S >>] >>
        person == JDict([name |-> JStr("Person"), type |-> JStr("BusinessEntity"),
                         fields |-> JList(<< MkField("firstName", S), MkField("lastName", S),
                                             MkField("phoneType", P), MkField("phoneNumber", P) >>)])
    IN  JDict([dataModel |->
                  JDict([entities |-> JList([i \in 1..4 |-> MkEntity(i, shapes[i])] \o <<person>>),
                         relationships |-> JList(<<>>)])])

NoOutput == [t |-> "none"]
NoResult == [op |-> "none"]
NoEnv == [exists |-> FALSE]

\* No pipeline run.
PipelineIdle == pc = "idle" /\ env = NoEnv /\ files = {} /\ log = <<>>

(***************************************************************************)
(* SpecLayout: generate_drawio called again and again in one process, on   *)
(* data_model and on another model.                                        *)
(***************************************************************************)
InitLayout ==
    /\ data_model \in LayoutModels \cup LargerModels \cup StyledModels \cup {ScenarioA, TallModel}
    /\ id_counter = FIRST_ID
    /\ output = NoOutput
    /\ first_output = NoOutput
    /\ calls = <<>>
    /\ defects = {}
    /\ result = NoResult
    /\ PipelineIdle

\* generate_drawio(data_model)
GenerateDrawioCall ==
    /\ Len(calls) < MaxCalls
    /\ \E out \in {GenerateDrawio(data_model, NewIdCounter(id_counter))} :
           /\ output' = out
           /\ id_counter' = IF out = Raised THEN id_counter ELSE out.id_counter
           /\ first_output' = IF first_output = NoOutput THEN out ELSE first_output
    /\ calls' = Append(calls, "model")
    /\ UNCHANGED <<data_model, defects, result, pipelineVars>>

\* generate_drawio(another model) in the same process, once, at any point of
\* the run
GenerateDrawioOther ==
    /\ Len(calls) < MaxCalls
    /\ \A i \in 1..Len(calls) : calls[i] # "other"
    /\ \E out \in {GenerateDrawio(OtherModel, NewIdCounter(id_counter))} :
           /\ output' = out
           /\ id_counter' = IF out = Raised THEN id_counter ELSE out.id_counter
    /\ calls' = Append(calls, "other")
    /\ UNCHANGED <<data_model, first_output, defects, result, pipelineVars>>

NextLayout == GenerateDrawioCall \/ GenerateDrawioOther

SpecLayout == InitLayout /\ [][NextLayout]_vars

(***************************************************************************)
(* Report Renderer of the pipeline: generators.py, generate_html_report    *)
(* and get_summary_stats.  The page is the statistics it shows; every      *)
(* other access is a .get with a default and an f-string, which format any *)
(* value.                                                                  *)
(***************************************************************************)
HasType(entity, type) == IsDict(entity) /\ PyGet(entity, "type", JNull) = JStr(type)

\* len(x) for a value that has a length.
PyLen(x) == Len(PyIter(x))

\* get_summary_stats (generators.py:1136-1166).
GetSummaryStats(dm) ==
    IF ~IsDict(dm) \/ ~IsDict(PyGet(dm, "dataModel", EmptyDict)) THEN Raised
    ELSE LET inner == PyGet(dm, "dataModel", EmptyDict)
             entities == PyGet(inner, "entities", JList(<<>>))
             relationships == PyGet(inner, "relationships", JList(<<>>))
             es == PyIter(entities)
             FieldsBad(e) ==
                 LET fields == PyGet(e, "fields", JList(<<>>))
                 IN  ~Sized(fields) \/ \E n \in 1..PyLen(fields) : ~IsDict(PyIter(fields)[n])
             Custom(e) ==
                 LET fs == FieldsOf(e)
                 IN  Cardinality({n \in 1..Len(fs) : Truthy(PyGet(fs[n], "isCustom", JBool(FALSE)))})
         IN  IF \/ ~Iterable(entities)
                \/ \E n \in 1..Len(es) : ~IsDict(es[n])
                \/ \E n \in 1..Len(es) : FieldsBad(es[n])
                \/ ~Sized(relationships)
             THEN Raised
             ELSE LET total_fields == SumSeq([n \in 1..Len(es) |-> PyLen(PyGet(es[n], "fields", JList(<<>>)))])
                      custom_fields == SumSeq([n \in 1..Len(es) |-> Custom(es[n])])
                  IN  [total_entities |-> Len(es),
                       business_entities |-> Cardinality({n \in 1..Len(es) : HasType(es[n], "BusinessEntity")}),
                       reference_entities |-> Cardinality({n \in 1..Len(es) : HasType(es[n], "ReferenceEntity")}),
                       total_fields |-> total_fields,
                       custom_fields |-> custom_fields,
                       ootb_fields |-> total_fields - custom_fields,
                       total_relationships |-> PyLen(relationships)]

\* The traceability block of one field row (generators.py:988-993): zip() over a
\* value that cannot be iterated is a TypeError.
TraceabilityRaises(field) ==
    LET requirement_ids == PyGet(field, "requirementIds", JList(<<>>))
        source_requirements == PyGet(field, "sourceRequirements", JList(<<>>))
    IN  /\ Truthy(requirement_ids) \/ Truthy(source_requirements)
        /\ ~Iterable(requirement_ids) \/ ~Iterable(source_requirements)

\* generators.generate_html_report (generators.py:456-1133): the page, or Raised.
GenerateHtmlReport(dm) ==
    LET stats == GetSummaryStats(dm)
    IN  IF ~IsDict(dm) THEN Raised
        ELSE LET metadata == PyGet(dm, "metadata", EmptyDict)
                 reasoning == PyGet(dm, "reasoning", EmptyDict)
             IN  IF \/ stats = Raised
                    \/ ~IsDict(metadata)
                    \/ ~IsStr(PyGet(metadata, "platform", JStr("informatica")))
                    \/ ~IsDict(reasoning)
                    \/ ~Iterable(PyGet(reasoning, "entityDecisions", JList(<<>>)))
                    \/ \E n \in 1..Len(EntitiesOf(dm)) :
                          /\ HasType(EntitiesOf(dm)[n], "BusinessEntity")
                          /\ \E k \in 1..Len(FieldsOf(EntitiesOf(dm)[n])) :
                                TraceabilityRaises(FieldsOf(EntitiesOf(dm)[n])[k])
                 THEN Raised
                 ELSE [t |-> "html", stats |-> stats]

(***************************************************************************)
(* Standalone Report Renderer: generate_data_model_report.py,              *)
(* analyze_entity and generate_html_report.                                *)
(***************************************************************************)
\* A value that can be a dict key or a set member.
Hashable(x) == x.t \notin {"list", "dict"}

\* The category analyze_entity files one field under
\* (generate_data_model_report.py:37-54), or Raised.
Categorize(field) ==
    IF ~IsDict(field) THEN Raised
    ELSE LET field_name == PyGet(field, "name", JStr(""))
             field_group == PyGet(field, "fieldGroup", JNull)
             data_type == PyGet(field, "dataType", JStr(""))
             is_lookup == PyGet(field, "isLookup", JBool(FALSE))
         IN  IF field_group # JStr("_meta") /\ Truthy(field_group) /\ ~Hashable(field_group)
                THEN Raised
             ELSE IF field_group # JStr("_meta") /\ ~Truthy(field_group) /\ ~IsStr(field_name)
                THEN Raised
             ELSE IF ~Truthy(is_lookup) /\ ~IsStr(data_type) THEN Raised
             ELSE [category |->
                      IF field_group = JStr("_meta") THEN "meta"
                      ELSE IF Truthy(field_group) THEN "group"
                      ELSE IF \/ Contains(Lower(Chars(field_name.v)), <<"i", "d">>)
                              \/ Contains(Lower(Chars(field_name.v)),
                                          <<"i", "d", "e", "n", "t", "i", "f", "i", "e", "r">>)
                           THEN "identifier"
                      ELSE "general",
                   group |-> field_group,
                   lookup |-> Truthy(is_lookup)
                              \/ Contains(Lower(Chars(data_type.v)), <<"l", "o", "o", "k", "u", "p">>)]

\* str.startswith
StartsWith(cs, prefix) == Len(prefix) <= Len(cs) /\ SubSeq(cs, 1, Len(prefix)) = prefix

\* Only a text that starts with the id and a colon is taken.
MatchesRequirementMutant(req_id, source_req) ==
    StartsWith(Chars(source_req), Chars(req_id) \o <<":">>)

\* Whether source_req is taken as the text of req_id
\* (generate_data_model_report.py:77-87).
MatchesRequirement(req_id, source_req) ==
    \/ StartsWith(Chars(source_req), Chars(req_id) \o <<":">>)
    \/ Contains(Chars(source_req), Chars(req_id))
    \/ req_id = "STANDARD"
          /\ Contains(Lower(Chars(source_req)), <<"s", "t", "a", "n", "d", "a", "r", "d">>)

\* `for source_req in source_reqs` up to its break: the text found, JNull when
\* none matches, Raised.
RECURSIVE ScanSources(_, _)
ScanSources(req_id, source_reqs) ==
    IF source_reqs = <<>> THEN JNull
    ELSE IF ~IsStr(Head(source_reqs)) \/ ~IsStr(req_id) THEN Raised
    ELSE IF MatchesRequirement(req_id.v, Head(source_reqs).v) THEN Head(source_reqs)
    ELSE ScanSources(req_id, Tail(source_reqs))

NoRequirements == [raised |-> FALSE, ids |-> {}, to_fields |-> <<>>, to_text |-> {}]

\* The body of `for req_id in req_ids` for the field at position n
\* (generate_data_model_report.py:70-87).
RECURSIVE ScanRequirementIds(_, _, _, _)
ScanRequirementIds(req_ids, field, n, acc) ==
    IF req_ids = <<>> \/ acc.raised THEN acc
    ELSE LET req_id == Head(req_ids)
             source_reqs == PyGet(field, "sourceRequirements", JList(<<>>))
             known == \E p \in acc.to_text : p[1] = req_id
             text == IF known THEN JNull
                     ELSE IF ~Iterable(source_reqs) THEN Raised
                     ELSE ScanSources(req_id, PyIter(source_reqs))
         IN  IF ~Hashable(req_id) \/ text = Raised
             THEN [acc EXCEPT !.raised = TRUE]
             ELSE ScanRequirementIds(Tail(req_ids), field, n,
                      [acc EXCEPT !.ids = @ \cup {req_id},
                                  !.to_fields = Append(@, <<req_id, n>>),
                                  !.to_text = IF text = JNull THEN @ ELSE @ \cup {<<req_id, text>>}])

\* The second loop over the fields (generate_data_model_report.py:66-87).
RECURSIVE AnalyzeRequirements(_, _, _)
AnalyzeRequirements(fields, n, acc) ==
    IF n > Len(fields) \/ acc.raised THEN acc
    ELSE LET req_ids == PyGet(fields[n], "requirementIds", JList(<<>>))
         IN  IF ~Iterable(req_ids) THEN [acc EXCEPT !.raised = TRUE]
             ELSE AnalyzeRequirements(fields, n + 1,
                      ScanRequirementIds(PyIter(req_ids), fields[n], n, acc))

\* sorted() compares the members: a TypeError when they are not of one kind.
Sortable(S) == \A a \in S : \A b \in S : a.t = b.t

\* analyze_entity (generate_data_model_report.py:21-107), or Raised.
AnalyzeEntity(entity) ==
    IF ~IsDict(entity) \/ ~Iterable(PyGet(entity, "fields", JList(<<>>))) THEN Raised
    ELSE LET fields == FieldsOf(entity)
             categories == [n \in 1..Len(fields) |-> Categorize(fields[n])]
         IN  IF \E n \in 1..Len(categories) : categories[n] = Raised THEN Raised
             ELSE LET requirements == AnalyzeRequirements(fields, 1, NoRequirements)
                  IN  IF requirements.raised \/ ~Sortable(requirements.ids) THEN Raised
                      ELSE [name |-> PyGet(entity, "name", JStr("Unknown")),
                            type |-> PyGet(entity, "type", JStr("Unknown")),
                            total_fields |-> Len(fields),
                            fields |-> fields,
                            categories |-> categories,
                            requirement_ids |-> requirements.ids,
                            requirement_to_fields |-> requirements.to_fields,
                            requirement_to_text |-> requirements.to_text]

\* What rendering the card of one BusinessEntity analysis can raise on
\* (generate_data_model_report.py:508-660, 705-707).
CardRaises(analysis) ==
    LET grouped == {n \in 1..Len(analysis.fields) : analysis.categories[n].category = "group"}
    IN  \/ ~Sortable({analysis.categories[n].group : n \in grouped})
        \/ \E n \in grouped : ~IsStr(PyGet(analysis.fields[n], "name", JStr("Unknown")))
        \/ \E n \in 1..Len(analysis.fields) :
              /\ analysis.categories[n].category \in {"general", "group"}
              /\ ~Truthy(PyGet(analysis.fields[n], "isLookup", JBool(FALSE)))
              /\ ~IsStr(PyGet(analysis.fields[n], "dataType", JStr("")))
        \/ \E req_id \in analysis.requirement_ids : ~IsStr(req_id)
        \/ \E n \in 1..Len(analysis.fields) :
              /\ \E m \in 1..Len(analysis.requirement_to_fields) :
                    analysis.requirement_to_fields[m][2] = n
              /\ ~IsDict(PyGet(analysis.fields[n], "fieldReasoning", EmptyDict))

\* requirement_text = analysis['requirement_to_text'].get(req_id, 'No description
\* available') (generate_data_model_report.py:621): the text the card shows for
\* req_id.
RequirementText(analysis, req_id) ==
    IF \E p \in analysis.requirement_to_text : p[1] = req_id
    THEN (CHOOSE p \in analysis.requirement_to_text : p[1] = req_id)[2]
    ELSE JStr("No description available")

\* relationships read by subscript instead of .get.
ReportRelationshipsMutant(dm) == PySubscript(dm, "relationships")

\* relationships = data_model.get('relationships', [])
\* (generate_data_model_report.py:114).
ReportRelationships(dm) == PyGet(dm, "relationships", JList(<<>>))

\* generate_data_model_report.generate_html_report
\* (generate_data_model_report.py:110-736), or Raised.
GenerateDataModelReport(dm) ==
    IF ~IsDict(dm) THEN Raised
    ELSE LET entities == PyGet(dm, "entities", JList(<<>>))
             relationships == ReportRelationships(dm)
         IN  IF relationships = Raised \/ ~Iterable(entities) THEN Raised
             ELSE LET es == PyIter(entities)
                      entity_analyses == [n \in 1..Len(es) |-> AnalyzeEntity(es[n])]
                      business == {n \in 1..Len(es) : HasType(es[n], "BusinessEntity")}
                  IN  IF \/ \E n \in 1..Len(es) : entity_analyses[n] = Raised
                         \/ ~Sized(relationships)
                         \/ \E n \in business : CardRaises(entity_analyses[n])
                         \/ \E n \in 1..PyLen(relationships) : ~IsDict(PyIter(relationships)[n])
                      THEN Raised
                      ELSE [t |-> "report",
                            total_entities |-> Cardinality(business),
                            total_fields |-> SumSeq([n \in 1..Len(es) |->
                                IF n \in business THEN entity_analyses[n].total_fields ELSE 0]),
                            total_relationships |-> PyLen(relationships),
                            entity_analyses |-> entity_analyses,
                            requirement_texts |->
                                [n \in 1..Len(es) |->
                                    IF n \in business
                                    THEN {<<req_id, RequirementText(entity_analyses[n], req_id)>> :
                                             req_id \in entity_analyses[n].requirement_ids}
                                    ELSE {}]]

(***************************************************************************)
(* Schema Validator: tests/test_data_model.py,                             *)
(* validate_data_model_structure.  An error is the message appended to     *)
(* errors: its wording (code), the 0-based indices it prints and the key   *)
(* it names.                                                               *)
(***************************************************************************)
Err(code, i, j, key) == [code |-> code, i |-> i, j |-> j, key |-> key]

\* An exception raised while the checks ran.
RaiseMark == Err("raised", 0, 0, "")

Pair(is_valid, errors) == [t |-> "pair", is_valid |-> is_valid, errors |-> errors]

RECURSIVE Flatten(_)
Flatten(ss) == IF ss = <<>> THEN <<>> ELSE Head(ss) \o Flatten(Tail(ss))

\* `for field in required: if field not in x: errors.append(...)`
MissingKeys(x, required, code, i, j) ==
    Flatten([n \in 1..Len(required) |->
                IF HasKey(x, required[n]) THEN <<>> ELSE <<Err(code, i, j, required[n])>>])

\* `v = x.get(key, []); if not isinstance(v, list): errors.append(...)`
MustBeList(x, key, code, i, j) ==
    LET v == PyGet(x, key, JList(<<>>))
    IN  IF v = Raised THEN <<RaiseMark>>
        ELSE IF ~IsList(v) THEN <<Err(code, i, j, key)>> ELSE <<>>

RequiredFieldProps == <<"name", "dataType", "requirementIds", "sourceRequirements">>
RequiredEntityFields == <<"name", "type", "description", "fields">>
RequiredRelFields == <<"fromEntity", "toEntity", "relationshipType">>
ValidEntityTypes == {JStr("BusinessEntity"), JStr("ReferenceEntity")}

\* The checks of one field once it is known to be a mapping
\* (test_data_model.py:70-84).
FieldChecks(i, j, field) ==
    MissingKeys(field, RequiredFieldProps, "field_missing", i, j)
    \o MustBeList(field, "requirementIds", "field_must_be_list", i, j)
    \o MustBeList(field, "sourceRequirements", "field_must_be_list", i, j)

\* The isinstance guard and its `continue` left out.
ValidateFieldMutant(i, j, field) == FieldChecks(i, j, field)

\* The field checks plus a referential one: a lookup field must name its entity.
ValidateFieldStrict(i, j, field) ==
    IF ~IsDict(field) THEN <<Err("field_not_dict", i, j, "")>>
    ELSE FieldChecks(i, j, field)
         \o (IF Truthy(PyGet(field, "isLookup", JBool(FALSE)))
                /\ PyGet(field, "lookupEntity", JNull) # JStr("E2")
             THEN <<Err("field_lookup_unknown", i, j, "lookupEntity")>> ELSE <<>>)

\* One iteration of `for j, field in enumerate(fields)` (test_data_model.py:65-84).
ValidateField(i, j, field) ==
    IF ~IsDict(field) THEN <<Err("field_not_dict", i, j, "")>>
    ELSE FieldChecks(i, j, field)

\* The default of entity.get("fields", ...) taken as None.
FieldsDefaultMutant == JNull

\* fields = entity.get("fields", []) (test_data_model.py:61)
FieldsDefault == JList(<<>>)

\* One iteration of `for i, entity in enumerate(entities)` (test_data_model.py:44-84).
ValidateEntity(i, entity) ==
    IF ~IsDict(entity) THEN <<Err("entity_not_dict", i, 0, "")>>
    ELSE LET entity_type == PyGet(entity, "type", JStr(""))
             fields == PyGet(entity, "fields", FieldsDefault)
         IN  MissingKeys(entity, RequiredEntityFields, "entity_missing", i, 0)
             \o (IF entity_type \notin ValidEntityTypes
                 THEN <<Err("entity_invalid_type", i, 0, "type")>> ELSE <<>>)
             \o (IF ~IsList(fields) THEN <<Err("entity_fields_must_be_list", i, 0, "fields")>>
                 ELSE Flatten([j \in 1..Len(fields.v) |-> ValidateField(i, j - 1, fields.v[j])]))

\* Validate entities (test_data_model.py:39-84).
ValidateEntities(dm) ==
    LET entities == PyGet(dm, "entities", JList(<<>>))
    IN  IF ~IsList(entities) THEN <<Err("must_be_list", 0, 0, "entities")>>
        ELSE Flatten([i \in 1..Len(entities.v) |-> ValidateEntity(i - 1, entities.v[i])])

\* One iteration of `for i, rel in enumerate(relationships)` (test_data_model.py:91-100).
ValidateRelationship(i, rel) ==
    IF ~IsDict(rel) THEN <<Err("relationship_not_dict", i, 0, "")>>
    ELSE MissingKeys(rel, RequiredRelFields, "relationship_missing", i, 0)

\* Validate relationships (test_data_model.py:86-100).
ValidateRelationships(dm) ==
    LET relationships == PyGet(dm, "relationships", JList(<<>>))
    IN  IF ~IsList(relationships) THEN <<Err("must_be_list", 0, 0, "relationships")>>
        ELSE Flatten([i \in 1..Len(relationships.v) |->
                         ValidateRelationship(i - 1, relationships.v[i])])

\* Returning at the first group of checks that found an error.
CollectErrorsMutant(top, entities, relationships) ==
    IF top # <<>> THEN top
    ELSE IF entities # <<>> THEN <<Head(entities)>>
    ELSE relationships

\* errors is one list that every check appends to, in order.
CollectErrors(top, entities, relationships) == top \o entities \o relationships

\* validate_data_model_structure (test_data_model.py:19-103): (is_valid, errors),
\* or Raised.
ValidateDataModelStructure(dm) ==
    IF ~IsDict(dm) THEN Pair(FALSE, <<Err("not_a_dict", 0, 0, "")>>)
    ELSE LET errors ==
                 CollectErrors(
                     MissingKeys(dm, <<"entities", "relationships">>, "missing_top", 0, 0),
                     ValidateEntities(dm), ValidateRelationships(dm))
         IN  IF \E n \in 1..Len(errors) : errors[n] = RaiseMark THEN Raised
             ELSE Pair(Len(errors) = 0, errors)

(***************************************************************************)
(* The decoded JSON values the validator and the renderers are run on: a   *)
(* well-formed model with some of its parts deleted, replaced by a value   *)
(* of another type, or made to refer to an entity that does not exist.     *)
(***************************************************************************)
MaxDefects == 2

WellFormedField(name, data_type, is_lookup, lookup_entity, group) ==
    JDict([name |-> JStr(name), dataType |-> JStr(data_type),
           fieldGroup |-> group, isCustom |-> JBool(FALSE), isRequired |-> JBool(TRUE),
           isLookup |-> JBool(is_lookup), lookupEntity |-> lookup_entity,
           description |-> JStr("text"),
           requirementIds |-> JList(<<JStr("FR-001")>>),
           sourceRequirements |-> JList(<<JStr("FR-001: text")>>)])

\* entities and relationships at the top level, as the validator reads them.
BaseModel ==
    JDict([entities |-> JList(<<
               JDict([name |-> JStr("E1"), type |-> JStr("BusinessEntity"),
                      description |-> JStr("text"),
                      fields |-> JList(<<
                          WellFormedField("a1", "TextField", FALSE, JNull, JNull),
                          WellFormedField("a2", "LookupField", TRUE, JStr("E2"), JStr("Phone")) >>)]),
               JDict([name |-> JStr("E2"), type |-> JStr("ReferenceEntity"),
                      description |-> JStr("text"),
                      fields |-> JList(<<
                          WellFormedField("b1", "TextField", FALSE, JNull, JNull) >>)]) >>),
           relationships |-> JList(<<
               JDict([fromEntity |-> JStr("E1"), toEntity |-> JStr("E2"),
                      relationshipType |-> JStr("hasOne"), description |-> JStr("text")]) >>)])

\* The same model as the response file holds it: under 'dataModel', beside
\* metadata and reasoning.
Wrap(dm) ==
    JDict([metadata |-> JDict([generatedDate |-> JStr("2026-01-01"),
                               platform |-> JStr("informatica")]),
           reasoning |-> JDict([summary |-> JStr("text")]),
           dataModel |-> dm])

\* A defect: at the top level, in entity i, in field j of entity i or in
\* relationship i; op replaces the whole value, deletes key or sets key to val.
\* shape tells a defect of shape from a referential one.
Defect(lvl, i, j, op, key, val, shape) ==
    [lvl |-> lvl, i |-> i, j |-> j, op |-> op, key |-> key, val |-> val, shape |-> shape]

BaseEntityIdx == 1..Len(BaseModel.v.entities.v)
BaseFieldIdx(i) == 1..Len(BaseModel.v.entities.v[i].v.fields.v)
BaseRelIdx == 1..Len(BaseModel.v.relationships.v)

TopDefects ==
    {Defect("top", 0, 0, "replace", "", v, TRUE) :
        v \in {JNull, JBool(TRUE), JNum(7), JStr("x"), JList(<<>>)}}
    \cup {Defect("top", 0, 0, "delete", k, JNull, TRUE) : k \in {"entities", "relationships"}}
    \cup {Defect("top", 0, 0, "set", "entities", JStr("x"), TRUE),
          Defect("top", 0, 0, "set", "relationships", JNull, TRUE)}

EntityDefects ==
    UNION {
        {Defect("entity", i, 0, "replace", "", JStr("x"), TRUE)}
        \cup {Defect("entity", i, 0, "delete", k, JNull, TRUE) :
                 k \in {"name", "type", "description", "fields"}}
        \cup {Defect("entity", i, 0, "set", "type", v, TRUE) : v \in {JStr("Bogus"), JList(<<>>)}}
        \cup {Defect("entity", i, 0, "set", "fields", JNull, TRUE)}
        : i \in BaseEntityIdx}

FieldDefects ==
    UNION { UNION {
        {Defect("field", i, j, "replace", "", JNum(7), TRUE)}
        \cup {Defect("field", i, j, "delete", k, JNull, TRUE) :
                 k \in {"name", "dataType", "requirementIds", "sourceRequirements"}}
        \cup {Defect("field", i, j, "set", "requirementIds", JStr("x"), TRUE),
              Defect("field", i, j, "set", "sourceRequirements", JNull, TRUE)}
        : j \in BaseFieldIdx(i)} : i \in BaseEntityIdx}

RelDefects ==
    UNION {
        {Defect("rel", i, 0, "replace", "", JStr("x"), TRUE)}
        \cup {Defect("rel", i, 0, "delete", k, JNull, TRUE) :
                 k \in {"fromEntity", "toEntity", "relationshipType"}}
        : i \in BaseRelIdx}

\* Referential defects: a lookup field whose lookupEntity is null or names no
\* entity of the model; a relationship whose end names no entity of the model.
ReferentialDefects ==
    {Defect("field", 1, 2, "set", "lookupEntity", v, FALSE) : v \in {JNull, JStr("Nowhere")}}
    \cup {Defect("rel", 1, 0, "set", k, JStr("Nowhere"), FALSE) : k \in {"fromEntity", "toEntity"}}

AllDefects == TopDefects \cup EntityDefects \cup FieldDefects \cup RelDefects \cup ReferentialDefects

\* The place a defect changes: two defects of one input change different places.
Slot(d) == <<d.lvl, d.i, d.j, IF d.op = "replace" THEN "" ELSE d.key>>

RECURSIVE SubsetsUpTo(_, _)
SubsetsUpTo(S, n) ==
    IF n = 0 THEN {{}}
    ELSE LET smaller == SubsetsUpTo(S, n - 1)
         IN  smaller \cup {D \cup {d} : D \in smaller, d \in S}

DefectSets ==
    {D \in SubsetsUpTo(AllDefects, MaxDefects) :
        \A d1 \in D : \A d2 \in D : d1 # d2 => Slot(d1) # Slot(d2)}

\* x with the deletes and sets of mine applied, or the replacement if mine
\* holds one.
Patched(x, mine) ==
    IF \E d \in mine : d.op = "replace"
    THEN (CHOOSE d \in mine : d.op = "replace").val
    ELSE LET sets == {d \in mine : d.op = "set"}
             keys == (DOMAIN x.v \cup {d.key : d \in sets})
                         \ {d.key : d \in {d \in mine : d.op = "delete"}}
         IN  JDict([k \in keys |->
                       IF \E d \in sets : d.key = k
                       THEN (CHOOSE d \in sets : d.key = k).val
                       ELSE x.v[k]])

WithFields(entity, fields) ==
    JDict([k \in DOMAIN entity.v |-> IF k = "fields" THEN JList(fields) ELSE entity.v[k]])

ApplyDefects(base, ds) ==
    LET At(lvl, i, j) == {d \in ds : d.lvl = lvl /\ d.i = i /\ d.j = j}
        FieldAfter(i, j) == Patched(base.v.entities.v[i].v.fields.v[j], At("field", i, j))
        EntityAfter(i) ==
            Patched(WithFields(base.v.entities.v[i],
                               [j \in BaseFieldIdx(i) |-> FieldAfter(i, j)]),
                    At("entity", i, 0))
        RelAfter(i) == Patched(base.v.relationships.v[i], At("rel", i, 0))
    IN  Patched(JDict([entities |-> JList([i \in BaseEntityIdx |-> EntityAfter(i)]),
                       relationships |-> JList([i \in BaseRelIdx |-> RelAfter(i)])]),
                At("top", 0, 0))

(***************************************************************************)
(* SpecValidate: one call of the Schema Validator or of a renderer on a     *)
(* decoded JSON value.                                                     *)
(***************************************************************************)
InitValidate ==
    /\ defects \in DefectSets
    /\ data_model = ApplyDefects(BaseModel, defects)
    /\ id_counter = FIRST_ID
    /\ output = NoOutput
    /\ first_output = NoOutput
    /\ calls = <<>>
    /\ result = NoResult
    /\ PipelineIdle

\* The names the renderers bind to the data model they are given and to its
\* parts.
InputObjects ==
    {"data_model", "metadata", "reasoning", "entities", "relationships", "entity",
     "fields", "field", "rel", "req_ids", "source_reqs"}

\* fields is sorted in place.
GenerateDrawioWritesMutant == {"field_groups_dict", "standalone_fields", "fields"}

\* The containers each renderer appends to, assigns into or updates: all of
\* them are created by the renderer itself (generators.py:170, 191, 316-319).
GenerateDrawioWrites == {"field_groups_in_entity", "field_groups_dict", "standalone_fields"}

\* generators.py:959-972
GenerateHtmlReportWrites == {"properties"}

\* generate_data_model_report.py:29-35, 47-61, 64-66, 72-89
AnalyzeEntityWrites ==
    {"identifiers", "general_attributes", "field_groups", "meta_fields", "lookup_fields",
     "custom_fields", "required_fields", "all_requirement_ids", "requirement_to_fields",
     "requirement_to_text"}

\* generate_data_model_report.py:117-130
GenerateDataModelReportWrites == AnalyzeEntityWrites \cup {"all_field_groups", "all_requirements"}

\* The value a call was given as it is once the call is over: changed if the
\* call wrote into one of its parts.
InputAfter(x, writes) == IF writes \cap InputObjects = {} THEN x ELSE [t |-> "mutated", v |-> x]

\* validate_data_model_structure(data_model); wrapped is the same call on the
\* model as the response file holds it.
Validate ==
    /\ result = NoResult
    /\ result' = [op |-> "validate",
                  ret |-> ValidateDataModelStructure(data_model),
                  wrapped |-> ValidateDataModelStructure(Wrap(data_model))]
    /\ UNCHANGED <<data_model, id_counter, output, first_output, calls, defects, pipelineVars>>

\* generate_drawio(data_model)
RenderDrawio ==
    /\ result = NoResult
    /\ result' = [op |-> "generate_drawio",
                  ret |-> GenerateDrawio(data_model, NewIdCounter(id_counter)),
                  wrapped |-> GenerateDrawio(Wrap(data_model), NewIdCounter(id_counter)),
                  wrapped_after |-> InputAfter(Wrap(data_model), GenerateDrawioWrites)]
    /\ data_model' = InputAfter(data_model, GenerateDrawioWrites)
    /\ UNCHANGED <<id_counter, output, first_output, calls, defects, pipelineVars>>

\* generators.generate_html_report(data_model)
RenderHtmlReport ==
    /\ result = NoResult
    /\ result' = [op |-> "generate_html_report",
                  ret |-> GenerateHtmlReport(data_model),
                  wrapped |-> GenerateHtmlReport(Wrap(data_model)),
                  wrapped_after |-> InputAfter(Wrap(data_model), GenerateHtmlReportWrites)]
    /\ data_model' = InputAfter(data_model, GenerateHtmlReportWrites)
    /\ UNCHANGED <<id_counter, output, first_output, calls, defects, pipelineVars>>

\* generate_data_model_report.generate_html_report(data_model)
RenderDataModelReport ==
    /\ result = NoResult
    /\ result' = [op |-> "generate_data_model_report",
                  ret |-> GenerateDataModelReport(data_model),
                  wrapped |-> GenerateDataModelReport(Wrap(data_model)),
                  wrapped_after |-> InputAfter(Wrap(data_model), GenerateDataModelReportWrites)]
    /\ data_model' = InputAfter(data_model, GenerateDataModelReportWrites)
    /\ UNCHANGED <<id_counter, output, first_output, calls, defects, pipelineVars>>

\* analyze_entity(entity) on one entity of the model
AnalyzeEntityCall ==
    /\ result = NoResult
    /\ IsDict(data_model) /\ IsList(PyGet(data_model, "entities", JNull))
    /\ \E i \in 1..Len(PyGet(data_model, "entities", JNull).v) :
          result' = [op |-> "analyze_entity", i |-> i,
                     ret |-> AnalyzeEntity(PyGet(data_model, "entities", JNull).v[i]),
                     wrapped |-> AnalyzeEntity(PyGet(data_model, "entities", JNull).v[i]),
                     wrapped_after |-> InputAfter(Wrap(data_model), AnalyzeEntityWrites)]
    /\ data_model' = InputAfter(data_model, AnalyzeEntityWrites)
    /\ UNCHANGED <<id_counter, output, first_output, calls, defects, pipelineVars>>

NextValidate ==
    \/ Validate \/ RenderDrawio \/ RenderHtmlReport \/ RenderDataModelReport
    \/ AnalyzeEntityCall

SpecValidate == InitValidate /\ [][NextValidate]_vars

(***************************************************************************)
(* SpecReport: the Standalone Report Renderer and the Layout Engine on the *)
(* same entity.  The entity's fields vary in what the two partitions and   *)
(* the requirement analysis read: the name, the fieldGroup, the            *)
(* requirementIds and the sourceRequirements.                              *)
(***************************************************************************)
\* name and fieldGroup of a field: a plain name or one with 'id' in it; no
\* group (null, the empty string), the meta group or one of two groups.
ReportGroups == {JNull, JStr(""), JStr("_meta"), JStr("Phone"), JStr("Address")}
ReportNameTable == << <<"email", "personId">>, <<"firstName", "cwid">>, <<"lastName", "SPIDM">> >>

\* requirementIds and sourceRequirements of a field: texts that start with the
\* id, contain it, name the standard requirement in lower case, or match
\* nothing; an id listed twice; ids without texts and texts without ids.
RequirementShapes ==
    { [ids |-> <<"FR-001">>, texts |-> <<"FR-001: text">>],
      [ids |-> <<"FR-001", "FR-002">>, texts |-> <<"see FR-002", "FR-001: text">>],
      [ids |-> <<"FR-002">>, texts |-> <<"other">>],
      [ids |-> <<"FR-002">>, texts |-> <<"other", "see FR-002">>],
      [ids |-> <<"FR-001", "FR-001">>, texts |-> <<"FR-001: text">>],
      [ids |-> <<"STANDARD">>, texts |-> <<"Standard meta field">>],
      [ids |-> <<>>, texts |-> <<"FR-001: text">>],
      [ids |-> <<"FR-001">>, texts |-> <<>>] }

MkReportField(name, group, req) ==
    JDict([name |-> JStr(name), dataType |-> JStr("TextField"),
           fieldGroup |-> group, isCustom |-> JBool(FALSE), isRequired |-> JBool(TRUE),
           isLookup |-> JBool(FALSE), lookupEntity |-> JNull,
           description |-> JStr("text"),
           requirementIds |-> JList([n \in 1..Len(req.ids) |-> JStr(req.ids[n])]),
           sourceRequirements |-> JList([n \in 1..Len(req.texts) |-> JStr(req.texts[n])])])

\* The field at position j: either its name and group vary, or its
\* requirements.
ReportFields(j) ==
    {MkReportField(name, group, [ids |-> <<"FR-001">>, texts |-> <<"FR-001: text">>]) :
        name \in {ReportNameTable[j][1], ReportNameTable[j][2]}, group \in ReportGroups}
    \cup {MkReportField(ReportNameTable[j][1], JNull, req) : req \in RequirementShapes}

RECURSIVE ReportFieldSeqs(_)
ReportFieldSeqs(n) ==
    IF n = 0 THEN {<<>>}
    ELSE {Append(fs, f) : fs \in ReportFieldSeqs(n - 1), f \in ReportFields(n)}

ReportModels ==
    { JDict([entities |-> JList(<< JDict([name |-> JStr("Person"), type |-> JStr(type),
                                          description |-> JStr("text"),
                                          fields |-> JList(fs)]) >>),
             relationships |-> JList(<<>>)]) :
        type \in {"BusinessEntity", "ReferenceEntity"},
        fs \in UNION {ReportFieldSeqs(n) : n \in 0..MaxFields} }

InitReport ==
    /\ data_model \in ReportModels
    /\ defects = {}
    /\ id_counter = FIRST_ID
    /\ output = NoOutput
    /\ first_output = NoOutput
    /\ calls = <<>>
    /\ result = NoResult
    /\ PipelineIdle

NextReport == AnalyzeEntityCall \/ RenderDataModelReport \/ RenderDrawio

SpecReport == InitReport /\ [][NextReport]_vars

(***************************************************************************)
(* The visualisation step of the pipeline: run_full_pipeline.py,           *)
(* step4_generate_visualizations, with cursor_workflow.parse_cursor_response*)
(* and generators.save_drawio_file.                                        *)
(***************************************************************************)
MaxResponseDefects == 1

\* Defects of the response around the model: no 'dataModel' key, a dataModel
\* that is no mapping, a response that is no mapping.
ResponseDefects ==
    {Defect("response", 0, 0, "delete", "dataModel", JNull, TRUE),
     Defect("response", 0, 0, "set", "dataModel", JNull, TRUE),
     Defect("response", 0, 0, "replace", "", JList(<<>>), TRUE),
     Defect("response", 0, 0, "replace", "", JNum(7), TRUE)}

ResponseDefectSets ==
    {D \in SubsetsUpTo(AllDefects \cup ResponseDefects, MaxResponseDefects) :
        \A d1 \in D : \A d2 \in D : d1 # d2 => Slot(d1) # Slot(d2)}

\* The value the response text decodes to.
ResponseValue(D) ==
    Patched(Wrap(ApplyDefects(BaseModel, D)), {d \in D : d.lvl = "response"})

(* The response text is a sequence of characters in which the JSON document  *)
(* stands as one symbol, "{}" for the complete text of the response's value  *)
(* and "{" for a document cut short, or as a symbol for each part around     *)
(* three backticks that one of its strings holds.                            *)
Whitespace == {" ", "\n"}

\* The backtick character
Backtick == "BACKTICK"

Fence == <<Backtick, Backtick, Backtick>>

JsonFence == Fence \o <<"j", "s", "o", "n">>

\* str.startswith and str.endswith
StartsWithText(content, prefix) ==
    Len(content) >= Len(prefix) /\ SubSeq(content, 1, Len(prefix)) = prefix

EndsWithText(content, suffix) ==
    /\ Len(content) >= Len(suffix)
    /\ SubSeq(content, Len(content) - Len(suffix) + 1, Len(content)) = suffix

\* content[n:] and content[:-n]
DropFirst(content, n) == SubSeq(content, n + 1, Len(content))

DropLast(content, n) == SubSeq(content, 1, Len(content) - n)

\* str.strip: without the whitespace at either end
RECURSIVE LStrip(_)
LStrip(content) ==
    IF content # <<>> /\ Head(content) \in Whitespace THEN LStrip(Tail(content)) ELSE content

RECURSIVE RStrip(_)
RStrip(content) ==
    IF content # <<>> /\ content[Len(content)] \in Whitespace
    THEN RStrip(DropLast(content, 1)) ELSE content

Strip(content) == RStrip(LStrip(content))

\* content.find(sub, start): the 0-based index of the first occurrence at or
\* after start, or -1
Find(content, sub, start) ==
    LET at == {n \in start..(Len(content) - Len(sub)) :
                  SubSeq(content, n + 1, n + Len(sub)) = sub}
    IN  IF at = {} THEN -1 ELSE CHOOSE n \in at : \A k \in at : n <= k

\* parse_cursor_response's clean-up of the text it read
\* (cursor_workflow.py:113-122)
CleanUp(content) ==
    LET c0 == Strip(content)
        c1 == IF StartsWithText(c0, JsonFence) THEN DropFirst(c0, 7) ELSE c0
        c2 == IF StartsWithText(c1, Fence) THEN DropFirst(c1, 3) ELSE c1
        c3 == IF EndsWithText(c2, Fence) THEN DropLast(c2, 3) ELSE c2
    IN  Strip(c3)

\* LLMService._extract_json (archive/llm_service.py:98-124)
ExtractJson(content) ==
    LET c0 == Strip(content)
        from == IF StartsWithText(c0, JsonFence) THEN 7
                ELSE IF StartsWithText(c0, Fence) THEN 3 ELSE -1
        end_index == IF from = -1 THEN -1 ELSE Find(c0, Fence, from)
    IN  IF end_index # -1 THEN Strip(SubSeq(c0, from + 1, end_index)) ELSE c0

\* A complete JSON document with three backticks inside one of its strings.
QuotedFence == <<"{\"">> \o Fence \o <<"\"}">>

\* The texts that are one complete JSON document.
JsonDocuments == {<<"{}">>, QuotedFence}

\* Any text decodes to the value.
JsonLoadsMutant(content, value) == value

\* json.loads: the value of a text that is one complete JSON document, and
\* JSONDecodeError for any other text.
JsonLoads(content, value) == IF content \in JsonDocuments THEN value ELSE Raised

\* The language tags tried after an opening fence: none, json, and two the
\* program does not name.
LanguageTags == {<<>>, <<"j", "s", "o", "n">>, <<"J", "S", "O", "N">>, <<"j", "s">>}

\* A JSON document between fences: optional whitespace, the opening fence with
\* one of the tags, the document on the same or the next line, the closing
\* fence on the same or the next line, optional whitespace.
FencedWith(document, tags) ==
    {lead \o Fence \o tag \o sep1 \o document \o sep2 \o Fence \o trail :
        lead \in {<<>>, <<"\n">>}, tag \in tags,
        sep1 \in {<<>>, <<"\n">>}, sep2 \in {<<>>, <<"\n">>}, trail \in {<<>>, <<" ">>, <<"\n">>}}

FencedTexts(document) == FencedWith(document, LanguageTags)

\* A document without fences, with optional whitespace around it.
BareTexts(document) ==
    {lead \o document \o trail : lead \in {<<>>, <<" ">>}, trail \in {<<>>, <<"\n">>}}

\* Texts with one fence only, and the empty text.
OddTexts ==
    {<<>>, Fence \o <<"{}">>, <<"{}">> \o Fence, JsonFence \o <<"\n", "{}">>}

\* A document cut short
CutShort == <<"{">>

ResponseTexts ==
    UNION {FencedTexts(document) \cup BareTexts(document) :
              document \in JsonDocuments \cup {CutShort}}
    \cup OddTexts

\* The response file as step 4 finds it: a well-formed or defective value in
\* a bare text with every outcome of the two writes, and for the well-formed
\* value every text, and no file at all.
Envs(D) ==
    {[exists |-> TRUE, text |-> <<"{}">>, value |-> ResponseValue(D), fail |-> f] :
        f \in {"none", "drawio", "html"}}
    \cup (IF D # {} THEN {}
          ELSE {[exists |-> TRUE, text |-> x, value |-> ResponseValue(D), fail |-> "none"] :
                   x \in ResponseTexts}
               \cup {[exists |-> FALSE, text |-> <<>>, value |-> JNull, fail |-> "none"]})

\* `k in x`: a key of a mapping, an item of a list, a substring of a string
\* (the model's strings in this place are shorter than k); a TypeError on a
\* value that is no container.
Container(x) == x.t \in {"dict", "list", "str"}

PyIn(k, x) ==
    CASE x.t = "dict" -> k \in DOMAIN x.v
      [] x.t = "list" -> \E n \in 1..Len(x.v) : x.v[n] = JStr(k)
      [] x.t = "str" -> x.v = k
      [] OTHER -> FALSE

\* No check of the decoded value before it is returned.
ParseCursorResponseMutant(response) ==
    IF ~response.exists THEN Raised
    ELSE JsonLoads(CleanUp(response.text), response.value)

\* parse_cursor_response (cursor_workflow.py:97-141): the decoded value, or
\* Raised (every exception leaves as Exception).
ParseCursorResponse(response) ==
    IF ~response.exists THEN Raised
    ELSE LET parsed == JsonLoads(CleanUp(response.text), response.value)
         IN  IF parsed = Raised \/ ~Container(parsed) \/ ~PyIn("dataModel", parsed) THEN Raised
             ELSE LET inner == PySubscript(parsed, "dataModel")
                      entities == IF inner = Raised THEN Raised
                                  ELSE PySubscript(inner, "entities")
                  IN  IF entities = Raised \/ ~Sized(entities) THEN Raised
                      ELSE parsed

NonePair == <<"None", "None">>
OutputPaths == <<"drawio", "html">>

Fail(message) ==
    /\ log' = Append(log, message)
    /\ result' = [op |-> "step4", ret |-> NonePair]
    /\ pc' = "returned"

InitPipeline ==
    /\ defects \in ResponseDefectSets
    /\ env \in Envs(defects)
    /\ data_model = JNull
    /\ id_counter = FIRST_ID
    /\ output = NoOutput
    /\ first_output = NoOutput
    /\ calls = <<>>
    /\ result = NoResult
    /\ pc = "step4"
    /\ files = {}
    /\ log = <<>>

\* run_full_pipeline.py:236-238: the response file must exist.
Step4Locate ==
    /\ pc = "step4"
    /\ IF env.exists
       THEN /\ pc' = "parse"
            /\ log' = Append(log, "JSON File")
            /\ UNCHANGED result
       ELSE Fail("JSON file not found")
    /\ UNCHANGED <<data_model, id_counter, output, first_output, calls, defects, env, files>>

\* run_full_pipeline.py:254 and the except clause at 269-271.
Step4Parse ==
    /\ pc = "parse"
    /\ calls' = Append(calls, "parse_cursor_response")
    /\ LET parsed == ParseCursorResponse(env)
       IN  IF parsed = Raised
           THEN Fail("Error generating visualizations") /\ UNCHANGED data_model
           ELSE /\ data_model' = parsed
                /\ pc' = "drawio"
                /\ log' = Append(log, "Valid data model loaded")
                /\ UNCHANGED result
    /\ UNCHANGED <<id_counter, output, first_output, defects, env, files>>

\* run_full_pipeline.py:258, save_drawio_file (generators.py:438-453): the
\* diagram is laid out and then written.
Step4SaveDrawio ==
    /\ pc = "drawio"
    /\ calls' = Append(calls, "generate_drawio")
    /\ LET xml == GenerateDrawio(data_model, NewIdCounter(id_counter))
       IN  /\ output' = xml
           /\ IF xml = Raised \/ env.fail = "drawio"
              THEN Fail("Error generating visualizations") /\ UNCHANGED files
              ELSE /\ files' = files \cup {"drawio"}
                   /\ pc' = "html"
                   /\ log' = Append(log, "Draw.io saved")
                   /\ UNCHANGED result
    /\ UNCHANGED <<data_model, id_counter, first_output, defects, env>>

\* run_full_pipeline.py:263-267, generators.generate_html_report: the page is
\* built and then written; both paths are returned.
Step4HtmlReport ==
    /\ pc = "html"
    /\ calls' = Append(calls, "generate_html_report")
    /\ IF GenerateHtmlReport(data_model) = Raised \/ env.fail = "html"
       THEN Fail("Error generating visualizations") /\ UNCHANGED files
       ELSE /\ files' = files \cup {"html"}
            /\ pc' = "returned"
            /\ log' = Append(log, "HTML report saved")
            /\ result' = [op |-> "step4", ret |-> OutputPaths]
    /\ UNCHANGED <<data_model, id_counter, output, first_output, defects, env>>

NextPipeline == Step4Locate \/ Step4Parse \/ Step4SaveDrawio \/ Step4HtmlReport

SpecPipeline == InitPipeline /\ [][NextPipeline]_vars

(***************************************************************************)
(* Fence stripping on its own: the clean-up of parse_cursor_response and    *)
(* LLMService._extract_json, each applied once to a response text.          *)
(***************************************************************************)
InitFences ==
    /\ defects = {}
    /\ env \in {[exists |-> TRUE, text |-> x, value |-> ResponseValue({}), fail |-> "none"] :
                   x \in ResponseTexts}
    /\ data_model = JNull
    /\ id_counter = FIRST_ID
    /\ output = NoOutput
    /\ first_output = NoOutput
    /\ calls = <<>>
    /\ result = NoResult
    /\ pc = "text"
    /\ files = {}
    /\ log = <<>>

\* cursor_workflow.py:113-125
CleanUpCall ==
    /\ pc = "text"
    /\ calls' = Append(calls, "clean_up")
    /\ result' = [op |-> "clean_up", ret |-> CleanUp(env.text),
                  parsed |-> JsonLoads(CleanUp(env.text), env.value)]
    /\ pc' = "stripped"
    /\ UNCHANGED <<data_model, id_counter, output, first_output, defects, env, files, log>>

\* archive/llm_service.py:73-80
ExtractJsonCall ==
    /\ pc = "text"
    /\ calls' = Append(calls, "_extract_json")
    /\ result' = [op |-> "_extract_json", ret |-> ExtractJson(Strip(env.text)),
                  parsed |-> JsonLoads(ExtractJson(Strip(env.text)), env.value)]
    /\ pc' = "stripped"
    /\ UNCHANGED <<data_model, id_counter, output, first_output, defects, env, files, log>>

NextFences == CleanUpCall \/ ExtractJsonCall

SpecFences == InitFences /\ [][NextFences]_vars

(***************************************************************************)
(* Generation through the language model: test_data_model_generation       *)
(* (tests/test_data_model.py) calls generate_data_model_from_text          *)
(* (archive/generators.py), which calls LLMService.generate_data_model     *)
(* (archive/llm_service.py); generate_data_model_from_file is the other    *)
(* way in.  The caller validates what came back, reports the errors,       *)
(* shows the statistics and saves the model.                               *)
(***************************************************************************)
MaxBlank == 3

\* `for error in errors[:10]` (test_data_model.py:158)
MaxShown == 10

\* Models made of blank entities and relationships: every required key of each
\* is missing.
BlankModels ==
    {JDict([entities |-> JList([i \in 1..n |-> EmptyDict]),
            relationships |-> JList([i \in 1..k |-> EmptyDict])]) :
        n \in 0..MaxBlank, k \in 0..MaxBlank}

\* What the language model is taken to answer, as a decoded value.
GeneratedValues ==
    BlankModels \cup {ApplyDefects(BaseModel, D) : D \in SubsetsUpTo(AllDefects, 1)}
    \cup {Wrap(BaseModel)}

\* The ways generate ends: a response, or an exception of the provider.
LlmFailures == {"auth", "network", "rate_limit"}

\* entry: the test, or generate_data_model_from_file called on its own.
\* llm: generate's outcome, or no API key when the service is built.  text and
\* value: the response.  fail: "save" when the model cannot be saved, "brd"
\* when the source file cannot be read.
GenerateEnvs ==
    {[entry |-> "test", llm |-> "ok", text |-> <<"{}">>, value |-> x, fail |-> "none"] :
        x \in GeneratedValues}
    \cup {[entry |-> e, llm |-> l, text |-> x, value |-> BaseModel, fail |-> f] :
            e \in {"test", "from_file"}, l \in {"ok", "no_key"} \cup LlmFailures,
            x \in {<<"{}">>, <<"{">>, JsonFence \o <<"\n", "{}", "\n">> \o Fence,
                   Fence \o <<"j", "s", "\n", "{}", "\n">> \o Fence},
            f \in {"none", "save", "brd"}}

InitGenerate ==
    /\ defects = {}
    /\ env \in GenerateEnvs
    /\ data_model = JNull
    /\ id_counter = FIRST_ID
    /\ output = NoOutput
    /\ first_output = NoOutput
    /\ calls = <<>>
    /\ result = NoResult
    /\ pc = "step2"
    /\ files = {}
    /\ log = <<>>

\* generate is called again after it raised.
GenerateCallsMutant(llm) ==
    IF llm \in LlmFailures THEN <<"generate", "generate">> ELSE <<"generate">>

\* The calls of self.generate that generate_data_model makes, for the outcome
\* of the first: one call inside the try block, and the except clause raises
\* (archive/llm_service.py:66-70 and 95-96).
GenerateCalls(llm) == <<"generate">>

\* LLMService.generate_data_model (archive/llm_service.py:45-96): the decoded
\* response, or Raised.
GenerateDataModel(llm, text, value) ==
    IF llm \in LlmFailures THEN Raised
    ELSE JsonLoads(ExtractJson(Strip(text)), value)

\* generate_data_model_from_text (archive/generators.py:81-136) and
\* generate_data_model_from_file (12-78), which reads the source file first:
\* every exception is raised again as an Exception.
GenerateDataModelFrom ==
    /\ pc = "step2"
    /\ LET name == IF env.entry = "test" THEN "generate_data_model_from_text"
                   ELSE "generate_data_model_from_file"
           unreadable == env.entry = "from_file" /\ env.fail = "brd"
           no_service == unreadable \/ env.llm = "no_key"
           parsed == IF no_service THEN Raised
                     ELSE GenerateDataModel(env.llm, env.text, env.value)
       IN  /\ calls' = calls \o <<name>>
                       \o (IF unreadable THEN <<>> ELSE <<"get_llm_service">>)
                       \o (IF no_service THEN <<>>
                           ELSE <<"generate_data_model">> \o GenerateCalls(env.llm))
           /\ result' = [op |-> name, ret |-> parsed]
           /\ data_model' = IF parsed = Raised THEN data_model ELSE parsed
           /\ pc' = IF env.entry = "from_file" THEN "done"
                    ELSE IF parsed = Raised THEN "except" ELSE "step4"
    /\ UNCHANGED <<id_counter, output, first_output, defects, env, files, log>>

\* Step 4 of the test: validate_data_model_structure(data_model)
\* (test_data_model.py:149-152).
ValidateStructure ==
    /\ pc = "step4"
    /\ calls' = Append(calls, "validate_data_model_structure")
    /\ result' = [op |-> "validate", ret |-> ValidateDataModelStructure(data_model)]
    /\ pc' = IF ValidateDataModelStructure(data_model) = Raised THEN "except" ELSE "report"
    /\ UNCHANGED <<data_model, id_counter, output, first_output, defects, env, files, log>>

\* What the test prints of the validation (test_data_model.py:154-161): that
\* the structure is valid, or the number of errors, the first ten of them and
\* the number of the others.
ReportedLines(is_valid, errors) ==
    IF is_valid THEN <<Err("structure is valid", 0, 0, "")>>
    ELSE <<Err("error(s)", Len(errors), 0, "")>>
         \o SubSeq(errors, 1, IF Len(errors) > MaxShown THEN MaxShown ELSE Len(errors))
         \o (IF Len(errors) > MaxShown
             THEN <<Err("more errors", Len(errors) - MaxShown, 0, "")>> ELSE <<>>)

ReportErrors ==
    /\ pc = "report"
    /\ log' = log \o ReportedLines(result.ret.is_valid, result.ret.errors)
    /\ pc' = "step5"
    /\ UNCHANGED <<data_model, id_counter, output, first_output, calls, defects, result,
                   env, files>>

\* entity.get(...) on each item, len() of its fields (test_data_model.py:168-172)
EntityLineRaises(entity) ==
    ~IsDict(entity) \/ ~Sized(PyGet(entity, "fields", JList(<<>>)))

\* sample_entity.get('description', 'N/A')[:100] and the first five fields
\* (test_data_model.py:182-200)
SampleEntityRaises(entity) ==
    LET description == PyGet(entity, "description", JStr("N/A"))
        fields == PyGet(entity, "fields", JList(<<>>))
    IN  \/ description.t \notin {"str", "list"}
        \/ /\ Truthy(fields)
           /\ \/ ~IsList(fields)
              \/ \E n \in 1..Len(fields.v) : n <= 5 /\ ~IsDict(fields.v[n])

\* Steps 5 and 6 of the test raise (test_data_model.py:163-200).
StatisticsRaise(dm) ==
    IF ~IsDict(dm) THEN TRUE
    ELSE LET entities == PyGet(dm, "entities", JList(<<>>))
             relationships == PyGet(dm, "relationships", JList(<<>>))
         IN  \/ ~Sized(entities)
             \/ \E n \in 1..PyLen(entities) : EntityLineRaises(PyIter(entities)[n])
             \/ ~Sized(relationships)
             \/ \E n \in 1..PyLen(relationships) : ~IsDict(PyIter(relationships)[n])
             \/ Truthy(entities) /\ SampleEntityRaises(PyIter(entities)[1])

\* Steps 5 to 8 of the test and its return (test_data_model.py:163-230): the
\* statistics, the preview, the saved file, and is_valid as the result.
ShowAndSave ==
    /\ pc = "step5"
    /\ IF StatisticsRaise(data_model) \/ env.fail = "save"
       THEN pc' = "except" /\ UNCHANGED <<files, result>>
       ELSE /\ files' = files \cup {"generated_data_model.json"}
            /\ result' = [op |-> "test_data_model_generation", ret |-> result.ret.is_valid]
            /\ pc' = "done"
    /\ UNCHANGED <<data_model, id_counter, output, first_output, calls, defects, env, log>>

\* `except Exception as e: ... return False` (test_data_model.py:232-236)
ExceptReturnFalse ==
    /\ pc = "except"
    /\ log' = Append(log, Err("Error", 0, 0, ""))
    /\ result' = [op |-> "test_data_model_generation", ret |-> FALSE]
    /\ pc' = "done"
    /\ UNCHANGED <<data_model, id_counter, output, first_output, calls, defects, env, files>>

NextGenerate ==
    \/ GenerateDataModelFrom \/ ValidateStructure \/ ReportErrors \/ ShowAndSave
    \/ ExceptReturnFalse

SpecGenerate == InitGenerate /\ [][NextGenerate]_vars

(***************************************************************************)
(* The command line: run_full_pipeline.py, main, run_full_pipeline and     *)
(* steps 1 to 3, and app.py.                                               *)
(***************************************************************************)
\* The responses a command-line run is tried on: well-formed, without
\* 'dataModel', and with a BusinessEntity whose fields is null.
RunDefectSets ==
    {{}, {Defect("response", 0, 0, "delete", "dataModel", JNull, TRUE)},
     {Defect("entity", 1, 0, "set", "fields", JNull, TRUE)}}

\* entry and mode: app.py, or run_full_pipeline.py with --visuals-only or
\* --step visualizations ("visuals"), --step parse, --step prompt, or neither
\* ("all").  brd: the source spreadsheet is read ("ok"), holds no text
\* ("empty"), is missing, or makes parse_document raise ("unreadable").
RunEnvs(D) ==
    {[entry |-> c[1], mode |-> c[2], brd |-> b,
      exists |-> r.exists, text |-> r.text, value |-> r.value, fail |-> f] :
        c \in {<<"app", "all">>, <<"main", "all">>, <<"main", "visuals">>,
               <<"main", "parse">>, <<"main", "prompt">>},
        b \in {"ok", "empty", "missing", "unreadable"},
        f \in {"none", "prompt", "drawio", "html"},
        r \in {[exists |-> TRUE, text |-> <<"{}">>, value |-> ResponseValue(D)]}
              \cup (IF D # {} THEN {}
                    ELSE {[exists |-> TRUE, text |-> JsonFence \o <<"\n", "{}", "\n">> \o Fence,
                           value |-> ResponseValue(D)],
                          [exists |-> TRUE, text |-> <<"{">>, value |-> ResponseValue(D)],
                          [exists |-> FALSE, text |-> <<>>, value |-> JNull]})}

InitRun ==
    /\ defects \in RunDefectSets
    /\ env \in RunEnvs(defects)
    /\ data_model = JNull
    /\ id_counter = FIRST_ID
    /\ output = NoOutput
    /\ first_output = NoOutput
    /\ calls = <<>>
    /\ result = NoResult
    /\ pc = "main"
    /\ files = {}
    /\ log = <<>>

\* sys.exit(code)
Exit(code) ==
    /\ result' = [op |-> "exit", ret |-> code]
    /\ pc' = "exited"

\* run_full_pipeline returns value to main or app.py.
RunReturn(value) ==
    /\ result' = [op |-> "run_full_pipeline", ret |-> value]
    /\ pc' = "run_returned"

\* main (run_full_pipeline.py:371-421) chooses what to run; app.py:17 runs the
\* full pipeline.
Main ==
    /\ pc = "main"
    /\ pc' = IF env.mode = "visuals" THEN "step4" ELSE "step1"
    /\ UNCHANGED <<data_model, id_counter, output, first_output, calls, defects, result,
                   env, files, log>>

\* step1_parse_brd (run_full_pipeline.py:68-128): the text, or None.
Step1ParseBrd ==
    /\ pc = "step1"
    /\ calls' = Append(calls, "step1_parse_brd")
    /\ log' = Append(log, CASE env.brd = "missing" -> "File not found"
                            [] env.brd = "unreadable" -> "Error parsing BRD"
                            [] OTHER -> "Successfully parsed BRD")
    /\ result' = [op |-> "step1",
                  ret |-> CASE env.brd = "ok" -> "text" [] env.brd = "empty" -> ""
                            [] OTHER -> "None"]
    /\ pc' = "after_step1"
    /\ UNCHANGED <<data_model, id_counter, output, first_output, defects, env, files>>

\* `if not brd_text` and `if brd_text`.
BrdTextTruthy(brd_text) == brd_text \notin {"", "None"}

\* What follows step 1: run_full_pipeline.py:297-299 in run_full_pipeline,
\* 408-417 in main.
AfterStep1 ==
    /\ pc = "after_step1"
    /\ IF env.mode = "parse" THEN Exit(IF BrdTextTruthy(result.ret) THEN 0 ELSE 1)
       ELSE IF BrdTextTruthy(result.ret) THEN pc' = "step2" /\ UNCHANGED result
       ELSE IF env.mode = "prompt" THEN Exit(1)
       ELSE RunReturn("False")
    /\ UNCHANGED <<data_model, id_counter, output, first_output, calls, defects, env, files, log>>

\* step2_generate_prompt (run_full_pipeline.py:131-166) with
\* save_prompt_to_file (cursor_workflow.py:71-94): the path, or None.
Step2GeneratePrompt ==
    /\ pc = "step2"
    /\ calls' = Append(calls, "step2_generate_prompt")
    /\ IF env.fail = "prompt"
       THEN /\ log' = Append(log, "Error generating prompt")
            /\ result' = [op |-> "step2", ret |-> "None"]
            /\ UNCHANGED files
       ELSE /\ files' = files \cup {"prompt"}
            /\ log' = Append(log, "Prompt saved")
            /\ result' = [op |-> "step2", ret |-> "prompt"]
    /\ pc' = "after_step2"
    /\ UNCHANGED <<data_model, id_counter, output, first_output, defects, env>>

\* The run goes on after step 2 whatever step 2 returned.
PromptSavedMutant(prompt_path) == TRUE

\* `if not prompt_path: return False` (run_full_pipeline.py:303-304)
PromptSaved(prompt_path) == prompt_path # "None"

\* What follows step 2: run_full_pipeline.py:303-304 in run_full_pipeline,
\* 412-416 in main, which does not look at what step 2 returned.
AfterStep2 ==
    /\ pc = "after_step2"
    /\ IF env.mode = "prompt" THEN Exit(0)
       ELSE IF PromptSaved(result.ret) THEN pc' = "step3" /\ UNCHANGED result
       ELSE RunReturn("False")
    /\ UNCHANGED <<data_model, id_counter, output, first_output, calls, defects, env, files, log>>

\* step3_cursor_instructions (run_full_pipeline.py:169-194) and the test of
\* os.path.exists(json_path) that follows it (307-329): without a response file
\* the run stops and returns True.
Step3CursorInstructions ==
    /\ pc = "step3"
    /\ calls' = Append(calls, "step3_cursor_instructions")
    /\ IF env.exists
       THEN /\ pc' = "step4"
            /\ log' = log \o <<"Instructions for Cursor AI", "Found existing JSON response">>
            /\ UNCHANGED result
       ELSE /\ log' = log \o <<"Instructions for Cursor AI", "Waiting for Cursor to generate JSON">>
            /\ RunReturn("True")
    /\ UNCHANGED <<data_model, id_counter, output, first_output, defects, env, files>>

\* Step 4 is taken to have produced both files whatever it returned.
BothPathsMutant(paths) == TRUE

\* `if drawio and html` (run_full_pipeline.py:313 and 401)
BothPaths(paths) == paths[1] # "None" /\ paths[2] # "None"

\* What follows step 4: run_full_pipeline.py:310-323 in run_full_pipeline
\* (nothing is returned when a path is None), 398-406 in main.
AfterStep4 ==
    /\ pc = "returned"
    /\ IF env.mode = "visuals" THEN Exit(IF BothPaths(result.ret) THEN 0 ELSE 1) /\ UNCHANGED log
       ELSE IF BothPaths(result.ret)
            THEN RunReturn("True") /\ log' = Append(log, "PIPELINE COMPLETE")
       ELSE RunReturn("None") /\ UNCHANGED log
    /\ UNCHANGED <<data_model, id_counter, output, first_output, calls, defects, env, files>>

\* `return 0 if success else 1` (run_full_pipeline.py:420-421) and
\* sys.exit(0 if success else 1) (app.py:18).
ExitWithSuccess ==
    /\ pc = "run_returned"
    /\ Exit(IF result.ret = "True" THEN 0 ELSE 1)
    /\ UNCHANGED <<data_model, id_counter, output, first_output, calls, defects, env, files, log>>

NextRun ==
    \/ Main \/ Step1ParseBrd \/ AfterStep1 \/ Step2GeneratePrompt \/ AfterStep2
    \/ Step3CursorInstructions
    \/ Step4Locate \/ Step4Parse \/ Step4SaveDrawio \/ Step4HtmlReport
    \/ AfterStep4 \/ ExitWithSuccess

SpecRun == InitRun /\ [][NextRun]_vars

(***************************************************************************)
(* What the claims say, read off the data model and the output directly.   *)
(***************************************************************************)
LastCallOnModel == calls # <<>> /\ calls[Len(calls)] = "model"

\* The model's entities, BusinessEntities and fields as the JSON gives them.
ModelEntities(dm) == dm.v.dataModel.v.entities.v
BusinessIdx(dm) ==
    {i \in 1..Len(ModelEntities(dm)) : ModelEntities(dm)[i].v.type = JStr("BusinessEntity")}
EntityFields(dm, i) == ModelEntities(dm)[i].v.fields.v

\* A field belongs to a field group when it carries a group label: a non-empty
\* fieldGroup other than the meta group.
HasGroupLabel(f) == f.v.fieldGroup \notin {JNull, JStr(""), JStr("_meta")}
GroupLabels(dm, i) ==
    {EntityFields(dm, i)[j].v.fieldGroup :
        j \in {j \in 1..Len(EntityFields(dm, i)) : HasGroupLabel(EntityFields(dm, i)[j])}}
GroupSize(dm, i, label) ==
    Cardinality({j \in 1..Len(EntityFields(dm, i)) : EntityFields(dm, i)[j].v.fieldGroup = label})

ExpectedNodeCount(dm) ==
    LET es == ModelEntities(dm)
        PerEntity(i) ==
            LET fs == EntityFields(dm, i)
                standalone == Cardinality({j \in 1..Len(fs) : ~HasGroupLabel(fs[j])})
                grouped == Cardinality({j \in 1..Len(fs) : HasGroupLabel(fs[j])})
            IN  1 + standalone + Cardinality(GroupLabels(dm, i)) + grouped
    IN  SumSeq([i \in 1..Len(es) |-> IF i \in BusinessIdx(dm) THEN PerEntity(i) ELSE 0])

NodeRoles == {"header", "field", "group", "child"}
NodeIdx(out) == {k \in 1..Len(out.cells) : out.cells[k].role \in NodeRoles}
EdgeIdx(out) == {k \in 1..Len(out.cells) : out.cells[k].role = "edge"}
IncomingEdges(out, id) == {k \in EdgeIdx(out) : out.cells[k].target = id}

\* The index of the BusinessEntity that owns the field called name.
OwnerOf(dm, name) ==
    CHOOSE i \in BusinessIdx(dm) :
        \E j \in 1..Len(EntityFields(dm, i)) : EntityFields(dm, i)[j].v.name = JStr(name)
FieldCalled(dm, name) ==
    LET fs == EntityFields(dm, OwnerOf(dm, name))
    IN  fs[CHOOSE j \in 1..Len(fs) : fs[j].v.name = JStr(name)]
EntityName(dm, i) == ModelEntities(dm)[i].v.name.v
EntityCalled(dm, name) == CHOOSE i \in BusinessIdx(dm) : EntityName(dm, i) = name

\* The cells an edge into cell c comes from.
SourcesOf(out, c) ==
    UNION { {s \in 1..Len(out.cells) : out.cells[s].id = out.cells[k].source} :
              k \in IncomingEdges(out, c.id) }

\* C1: the number of nodes generate_drawio emits (entity headers, field nodes,
\* group nodes, group children; not the container, the legend or the lookup
\* markers) is BusinessEntities + standalone fields + distinct groups per
\* BusinessEntity + grouped fields; scenario A gives 7 nodes.
C1_NodeCount ==
    LastCallOnModel =>
        /\ Cardinality(NodeIdx(output)) = ExpectedNodeCount(data_model)
        /\ data_model = ScenarioA => Cardinality(NodeIdx(output)) = 7

C1_Witness ==
    /\ LastCallOnModel
    /\ data_model = ScenarioA
    /\ Cardinality(NodeIdx(output)) = 7
    /\ Cardinality(EdgeIdx(output)) = 6

\* C2: edges = nodes - BusinessEntities; every field, group and child node is
\* the target of exactly one edge, from the header of its own entity (field and
\* group nodes) or from its own group node (children); no edge enters a header.
C2_EdgeStructure ==
    LastCallOnModel =>
        LET cells == output.cells
            dm == data_model
        IN  /\ Cardinality(EdgeIdx(output))
                 = Cardinality(NodeIdx(output)) - Cardinality(BusinessIdx(dm))
            /\ \A k \in NodeIdx(output) :
                 LET c == cells[k]
                     in == IncomingEdges(output, c.id)
                     src == SourcesOf(output, c)
                 IN  CASE c.role = "header" -> in = {}
                       [] c.role = "field" ->
                            /\ Cardinality(in) = 1
                            /\ Cardinality(src) = 1
                            /\ \A s \in src :
                                 /\ cells[s].role = "header"
                                 /\ cells[s].value = EntityName(dm, OwnerOf(dm, c.value))
                       [] c.role = "child" ->
                            /\ Cardinality(in) = 1
                            /\ Cardinality(src) = 1
                            /\ \A s \in src :
                                 /\ cells[s].role = "group"
                                 /\ JStr(cells[s].value) = FieldCalled(dm, c.value).v.fieldGroup
                                 /\ \A h \in SourcesOf(output, cells[s]) :
                                      cells[h].value = EntityName(dm, OwnerOf(dm, c.value))
                       [] c.role = "group" ->
                            /\ Cardinality(in) = 1
                            /\ Cardinality(src) = 1
                            /\ \A s \in src :
                                 /\ cells[s].role = "header"
                                 /\ JStr(c.value) \in GroupLabels(dm, EntityCalled(dm, cells[s].value))

C2_Witness ==
    /\ LastCallOnModel
    /\ Cardinality(BusinessIdx(data_model)) = 2
    /\ \E k \in NodeIdx(output) : output.cells[k].role = "child"
    /\ \E k \in NodeIdx(output) : output.cells[k].role = "field"
    /\ Cardinality(EdgeIdx(output)) = Cardinality(NodeIdx(output)) - 2

\* The group node of label in the entity called entity_name, and the node of
\* the standalone field called name.
GroupNodeIdx(out, entity_name, label) ==
    {k \in NodeIdx(out) :
        /\ out.cells[k].role = "group"
        /\ JStr(out.cells[k].value) = label
        /\ \E s \in SourcesOf(out, out.cells[k]) : out.cells[s].value = entity_name}
FieldNodeIdx(out, name) ==
    {k \in NodeIdx(out) : out.cells[k].role = "field" /\ out.cells[k].value = name}

\* C3 as claimed: in a BusinessEntity's field sequence, a standalone field that
\* follows a field of a group of N fields gets y >= group y + max(1, N) * 28.
C3_AsClaimed ==
    LastCallOnModel =>
        \A i \in BusinessIdx(data_model) :
            LET fs == EntityFields(data_model, i)
            IN  \A p \in 1..Len(fs) : \A q \in 1..Len(fs) :
                    (p < q /\ HasGroupLabel(fs[p]) /\ ~HasGroupLabel(fs[q])) =>
                        \A g \in GroupNodeIdx(output, EntityName(data_model, i), fs[p].v.fieldGroup) :
                        \A f \in FieldNodeIdx(output, fs[q].v.name.v) :
                            output.cells[f].y >= output.cells[g].y
                                + Max(1, GroupSize(data_model, i, fs[p].v.fieldGroup)) * FIELD_SPACING

\* C3 (amended): every field node or group node emitted after the node of a
\* group of N fields (a later group of the same entity, a field or group of a
\* later BusinessEntity) has y >= that group's y + max(1, N) * 28; the
\* standalone fields of the group's own entity are all drawn above the group,
\* wherever they stand in the field sequence.
C3_GroupNonOverlap ==
    LastCallOnModel =>
        LET cells == output.cells
        IN  \A g \in NodeIdx(output) : cells[g].role = "group" =>
              \A h \in SourcesOf(output, cells[g]) :
                LET i == EntityCalled(data_model, cells[h].value)
                    n == GroupSize(data_model, i, JStr(cells[g].value))
                IN  /\ \A k \in NodeIdx(output) :
                         (k > g /\ cells[k].role \in {"field", "group"}) =>
                             cells[k].y >= cells[g].y + Max(1, n) * FIELD_SPACING
                    /\ \A j \in 1..Len(EntityFields(data_model, i)) :
                         ~HasGroupLabel(EntityFields(data_model, i)[j]) =>
                             \A f \in FieldNodeIdx(output, EntityFields(data_model, i)[j].v.name.v) :
                                 cells[f].y < cells[g].y

C3_Witness ==
    /\ LastCallOnModel
    /\ \E g \in NodeIdx(output) : \E k \in NodeIdx(output) :
         /\ output.cells[g].role = "group"
         /\ Cardinality({c \in NodeIdx(output) : g \in SourcesOf(output, output.cells[c])}) >= 2
         /\ k > g
         /\ output.cells[k].role = "field"
         /\ output.cells[k].y >= output.cells[g].y + 2 * FIELD_SPACING
    /\ \E i \in BusinessIdx(data_model) :
         LET fs == EntityFields(data_model, i)
         IN  \E p \in 1..Len(fs) : \E q \in 1..Len(fs) :
                 p < q /\ HasGroupLabel(fs[p]) /\ ~HasGroupLabel(fs[q])

ValidatorRan == result.op = "validate"

Errors == {result.ret.errors[n] : n \in 1..Len(result.ret.errors)}

\* C5: validate_data_model_structure never raises, whatever decoded JSON value
\* it is given (null, boolean, number, string, list, or a mapping with parts
\* missing or of the wrong type): it returns a pair of a boolean and a list of
\* errors.
C5_NeverRaises ==
    ValidatorRan =>
        /\ result.ret # Raised
        /\ result.ret.t = "pair"
        /\ result.ret.is_valid \in BOOLEAN
        /\ result.ret.errors \in Seq({result.ret.errors[n] : n \in 1..Len(result.ret.errors)})
        /\ result.wrapped # Raised

C5_Witness ==
    /\ ValidatorRan
    /\ defects = {Defect("field", 1, 2, "replace", "", JNum(7), TRUE),
                  Defect("entity", 2, 0, "set", "fields", JNull, TRUE)}
    /\ result.ret.t = "pair"
    /\ ~result.ret.is_valid

\* A defect whose place another defect of the input has removed.
Masked(d, D) ==
    \E o \in D \ {d} :
        \/ o.lvl = "top" /\ o.op = "replace"
        \/ o.lvl = "top" /\ o.key = "entities" /\ d.lvl \in {"entity", "field"}
        \/ o.lvl = "top" /\ o.key = "relationships" /\ d.lvl = "rel"
        \/ o.lvl = "entity" /\ o.i = d.i /\ d.lvl = "field" /\ (o.op = "replace" \/ o.key = "fields")
        \/ o.lvl = d.lvl /\ o.i = d.i /\ o.j = d.j /\ o.op = "replace"

\* The error a shape defect calls for: the check it violates, the 0-based
\* position the message prints and the key it names.
ExpectedError(d) ==
    CASE d.lvl = "top" /\ d.op = "replace" -> Err("not_a_dict", 0, 0, "")
      [] d.lvl = "top" /\ d.op = "delete" -> Err("missing_top", 0, 0, d.key)
      [] d.lvl = "top" /\ d.op = "set" -> Err("must_be_list", 0, 0, d.key)
      [] d.lvl = "entity" /\ d.op = "replace" -> Err("entity_not_dict", d.i - 1, 0, "")
      [] d.lvl = "entity" /\ d.op = "delete" -> Err("entity_missing", d.i - 1, 0, d.key)
      [] d.lvl = "entity" /\ d.op = "set" /\ d.key = "type" ->
             Err("entity_invalid_type", d.i - 1, 0, "type")
      [] d.lvl = "entity" /\ d.op = "set" /\ d.key = "fields" ->
             Err("entity_fields_must_be_list", d.i - 1, 0, "fields")
      [] d.lvl = "field" /\ d.op = "replace" -> Err("field_not_dict", d.i - 1, d.j - 1, "")
      [] d.lvl = "field" /\ d.op = "delete" -> Err("field_missing", d.i - 1, d.j - 1, d.key)
      [] d.lvl = "field" /\ d.op = "set" -> Err("field_must_be_list", d.i - 1, d.j - 1, d.key)
      [] d.lvl = "rel" /\ d.op = "replace" -> Err("relationship_not_dict", d.i - 1, 0, "")
      [] d.lvl = "rel" /\ d.op = "delete" -> Err("relationship_missing", d.i - 1, 0, d.key)

Violations == {d \in defects : d.shape /\ ~Masked(d, defects)}

\* C6: the validator does not short-circuit.  When the top-level value is a
\* mapping, the returned list holds the error of every violated shape check,
\* in every entity, field and relationship, whatever was reported before it.
C6_NoShortCircuit ==
    (ValidatorRan /\ IsDict(data_model)) =>
        /\ result.ret # Raised
        /\ \A d \in Violations : ExpectedError(d) \in Errors

C6_Witness ==
    /\ ValidatorRan
    /\ defects = {Defect("entity", 1, 0, "delete", "name", JNull, TRUE),
                  Defect("field", 2, 1, "delete", "dataType", JNull, TRUE)}
    /\ Err("entity_missing", 0, 0, "name") \in Errors
    /\ Err("field_missing", 1, 0, "dataType") \in Errors

\* C7: for a model that is well-formed except that one entity has no 'fields'
\* key, the validator returns is_valid = False and exactly one error, which
\* identifies that entity and names 'fields'; it does not raise.
C7_MissingFields ==
    \A i \in BaseEntityIdx :
        (ValidatorRan /\ defects = {Defect("entity", i, 0, "delete", "fields", JNull, TRUE)}) =>
            result.ret = Pair(FALSE, <<Err("entity_missing", i - 1, 0, "fields")>>)

C7_Witness ==
    /\ ValidatorRan
    /\ defects = {Defect("entity", 2, 0, "delete", "fields", JNull, TRUE)}
    /\ ~HasKey(data_model.v.entities.v[2], "fields")
    /\ Len(result.ret.errors) = 1

\* C9: the validator checks shape only.  A model whose only defects are
\* referential (a lookup field whose lookupEntity is null or names no entity; a
\* relationship whose fromEntity or toEntity names no entity) is accepted with
\* is_valid = True and no error.
C9_ShapeOnly ==
    (ValidatorRan /\ defects # {} /\ \A d \in defects : ~d.shape) =>
        result.ret = Pair(TRUE, <<>>)

C9_Witness ==
    /\ ValidatorRan
    /\ defects = {Defect("field", 1, 2, "set", "lookupEntity", JNull, FALSE),
                  Defect("rel", 1, 0, "set", "toEntity", JStr("Nowhere"), FALSE)}
    /\ Truthy(data_model.v.entities.v[1].v.fields.v[2].v.isLookup)
    /\ data_model.v.entities.v[1].v.fields.v[2].v.lookupEntity = JNull
    /\ result.ret.is_valid

\* C8: for a model without the top-level 'relationships' key, the validator
\* returns is_valid = False with an error that names 'relationships', and the
\* Layout Engine and both Report Renderers run to completion on that model,
\* read as the validator reads it or wrapped under 'dataModel', without raising.
C8_MissingRelationships ==
    (Violations = {Defect("top", 0, 0, "delete", "relationships", JNull, TRUE)}) =>
        /\ ValidatorRan =>
              /\ result.ret # Raised
              /\ ~result.ret.is_valid
              /\ Err("missing_top", 0, 0, "relationships") \in Errors
        /\ result.op \in {"generate_drawio", "generate_html_report", "generate_data_model_report"} =>
              /\ result.ret # Raised
              /\ result.wrapped # Raised

C8_Witness ==
    /\ defects = {Defect("top", 0, 0, "delete", "relationships", JNull, TRUE)}
    /\ ~HasKey(data_model, "relationships")
    /\ result.op = "generate_data_model_report"
    /\ result.ret.t = "report"
    /\ result.ret.total_relationships = 0
    /\ result.wrapped.t = "report"

(***************************************************************************)
(* Pipeline claims, under SpecPipeline.                                    *)
(***************************************************************************)
Returned == pc = "returned"

Called(name) == \E n \in 1..Len(calls) : calls[n] = name

Logged(message) == \E n \in 1..Len(log) : log[n] = message

\* The response is the JSON text of a value with a defect of shape.
\* The response text holds a JSON document once cleaned up.
SyntaxOk == JsonLoads(CleanUp(env.text), env.value) # Raised

DefectiveJson == env.exists /\ SyntaxOk /\ \E d \in defects : d.shape

OnlyMissingKeys ==
    /\ env.exists /\ SyntaxOk
    /\ defects # {}
    /\ \A d \in defects :
          /\ d.op = "delete"
          /\ d.lvl \in {"entity", "field", "rel"} \/ (d.lvl = "top" /\ d.key = "relationships")

\* The response is a mapping without 'dataModel', or its dataModel is a mapping
\* without 'entities'.
NoModelOrEntities ==
    /\ env.exists /\ SyntaxOk
    /\ \E d \in defects :
          /\ d.op = "delete"
          /\ (d.lvl = "response" /\ d.key = "dataModel") \/ (d.lvl = "top" /\ d.key = "entities")
    /\ \A d \in defects : d.op # "replace" \/ d.lvl \notin {"response", "top"}
    /\ \A d \in defects : ~(d.lvl = "response" /\ d.op = "set")

C11_OtherOutputAttempted ==
    Returned =>
        /\ (env.fail = "drawio" /\ Called("generate_drawio") /\ output # Raised) =>
              Called("generate_html_report")
        /\ (env.fail = "html" /\ Called("generate_html_report")) => "drawio" \in files

(***************************************************************************)
(* The command line (SpecRun)                                              *)
(***************************************************************************)
Exited == pc = "exited" /\ result.op = "exit"

\* What the steps print when they fail.
FailureMessages ==
    {"File not found", "Error parsing BRD", "Error generating prompt",
     "JSON file not found", "Error generating visualizations"}

\* A step that ran failed: it printed a failure, or step 1 came back without
\* any text.
StepFailed ==
    \/ \E n \in 1..Len(log) : log[n] \in FailureMessages
    \/ Called("step1_parse_brd") /\ env.brd # "ok"

\* C12: the command line exits with code 1 whenever a step it ran failed
\* (source missing or unreadable, response unparseable, error writing an
\* output file, the prompt file included), whatever --step / --visuals-only
\* say, and with code 0 otherwise.
C12_ExitCode == Exited => (result.ret = 1 <=> StepFailed)

\* Apart from --step prompt with a prompt file that cannot be written, the
\* exit code is as stated.
ExitCodeOutsidePromptStep ==
    (Exited /\ ~(env.mode = "prompt" /\ Logged("Error generating prompt"))) =>
        (result.ret = 1 <=> StepFailed)

\* run_full_pipeline has returned True, or the run of the whole pipeline has
\* exited with code 0.
ReportsSuccess ==
    \/ pc = "run_returned" /\ result.op = "run_full_pipeline" /\ result.ret = "True"
    \/ Exited /\ env.mode = "all" /\ result.ret = 0

\* Done reached through Render: the response was parsed and both files were
\* written in this run.
DoneThroughRender ==
    /\ Called("parse_cursor_response") /\ Logged("Valid data model loaded")
    /\ Called("generate_drawio") /\ Called("generate_html_report")
    /\ {"drawio", "html"} \subseteq files

\* The run stopped after step 3 because there was no response file.
AwaitingResponse ==
    /\ ~env.exists
    /\ Called("step3_cursor_instructions") /\ Logged("Waiting for Cursor to generate JSON")
    /\ ~Called("parse_cursor_response")
    /\ files \cap {"drawio", "html"} = {}

\* C13 as stated: a run that reports success (run_full_pipeline returns True,
\* exit code 0) has reached Done through Render: the response was parsed and
\* both the diagram and the report were written during that run.
C13_AsClaimed == ReportsSuccess => DoneThroughRender

\* C13: a run that reports success either has reached Done through Render (the
\* response was parsed and both files were written during that run), or found
\* no response file after step 3 and stopped there with nothing rendered.
C13_DoneOrAwaiting == ReportsSuccess => (DoneThroughRender \/ AwaitingResponse)

C13_Witness == ReportsSuccess /\ Exited /\ DoneThroughRender /\ "prompt" \in files

\* The steps of run_full_pipeline, in the order of the state machine: parse
\* source, build prompt, obtain response, parse/validate response, render
\* (the diagram, then the report).
StepOrder ==
    <<"step1_parse_brd", "step2_generate_prompt", "step3_cursor_instructions",
      "parse_cursor_response", "generate_drawio", "generate_html_report">>

InStepOrder ==
    /\ Len(calls) <= Len(StepOrder)
    /\ \A n \in 1..Len(calls) : calls[n] = StepOrder[n]

\* A step has started only if every earlier step succeeded.
EarlierStepsSucceeded ==
    /\ Called("step2_generate_prompt") => env.brd = "ok" /\ Logged("Successfully parsed BRD")
    /\ Called("step3_cursor_instructions") => "prompt" \in files /\ Logged("Prompt saved")
    /\ Called("parse_cursor_response") => env.exists /\ Logged("Found existing JSON response")
    /\ Called("generate_drawio") => Logged("Valid data model loaded")
    /\ Called("generate_html_report") => "drawio" \in files /\ Logged("Draw.io saved")

FalsyResult ==
    (pc = "run_returned" /\ result.op = "run_full_pipeline" /\ StepFailed) =>
        result.ret \in {"False", "None"}

\* C14: run_full_pipeline runs its steps strictly in the order parse source,
\* build prompt, obtain response, parse/validate response, render; a step starts
\* only after every earlier step succeeded; once a step has failed no later
\* step runs, nothing more is written, and the run returns a falsy result.
C14_StepOrder ==
    /\ [](env.mode = "all" => InStepOrder /\ EarlierStepsSucceeded /\ FalsyResult)
    /\ [][(env.mode = "all" /\ StepFailed) => (calls' = calls /\ files' = files)]_vars

C14_Witness ==
    /\ env.mode = "all" /\ pc = "run_returned" /\ result.op = "run_full_pipeline"
    /\ StepFailed /\ Called("generate_drawio") /\ result.ret = "None"

(***************************************************************************)
(* The response text                                                       *)
(***************************************************************************)
\* What is left of the response text after fence stripping is not one
\* complete JSON document.
InvalidJson == env.exists /\ CleanUp(env.text) \notin JsonDocuments

\* C15: invalid JSON syntax in the response is fatal: when the response text
\* is not valid JSON after fence stripping, parse_cursor_response raises,
\* step4_generate_visualizations returns (None, None), and neither the diagram
\* file nor the report file is written.
C15_InvalidJsonFatal ==
    InvalidJson =>
        /\ ParseCursorResponse(env) = Raised
        /\ Returned => result.ret = NonePair /\ Logged("Error generating visualizations")
        /\ files \cap {"drawio", "html"} = {}
        /\ ~Called("generate_drawio") /\ ~Called("generate_html_report")

C15_Witness ==
    /\ InvalidJson /\ Returned /\ Called("parse_cursor_response")
    /\ StartsWithText(env.text, JsonFence) /\ EndsWithText(env.text, Fence)
\* The response is a complete JSON document between triple-backtick fences,
\* with or without a language tag after the opening fence.
FencedJson == env.text \in UNION {FencedTexts(document) : document \in JsonDocuments}

\* The JSON text between the fences of a fenced response.
InnerJson == CHOOSE document \in JsonDocuments : env.text \in FencedTexts(document)

\* The response has no fences.
NoFences == env.text \in UNION {BareTexts(document) : document \in JsonDocuments \cup {CutShort}}

Stripped == pc = "stripped" /\ result.op \in {"clean_up", "_extract_json"}

\* C18: for a response that is a JSON text wrapped in triple-backtick fences,
\* with or without a language tag after the opening fence, fence stripping
\* yields exactly the inner JSON text, so parsing succeeds; a response with no
\* fences is left unchanged apart from surrounding whitespace.
C18_FencesStripped ==
    Stripped =>
        /\ FencedJson => result.ret = InnerJson /\ result.parsed = env.value
        /\ NoFences => result.ret = Strip(env.text)

(***************************************************************************)
(* The generation test (SpecGenerate)                                      *)
(***************************************************************************)
\* The test has reported what the validator returned.
Reported == pc = "step5" /\ result.op = "validate" /\ result.ret # Raised

\* The error messages among the lines the test printed.
ShownErrors == {log[n] : n \in 1..Len(log)} \ {l \in {log[n] : n \in 1..Len(log)} :
                   l.code \in {"structure is valid", "error(s)", "more errors", "Error"}}

ReturnedErrors == {result.ret.errors[n] : n \in 1..Len(result.ret.errors)}

\* C16: every structural validation error the Schema Validator returns is shown
\* to the operator: the set of error messages reported by the caller equals the
\* full error list, whatever its length (none is dropped or truncated).
C16_AllErrorsShown == Reported => ShownErrors = ReturnedErrors

\* The number of calls of generate in this run.
GenerateCount == Cardinality({n \in 1..Len(calls) : calls[n] = "generate"})

\* generate was called and raised.
GenerateRaised == env.llm \in LlmFailures /\ GenerateCount > 0

\* C19: the language-model collaborator is invoked at most once per run: when
\* generate raises (auth, network, rate-limit), generate_data_model and
\* generate_data_model_from_text/_from_file propagate the failure as an
\* exception and never call generate again.
C19_GenerateOnce ==
    /\ GenerateCount <= 1
    /\ GenerateRaised =>
          /\ data_model = JNull /\ files = {}
          /\ \/ result.op \in {"generate_data_model_from_text", "generate_data_model_from_file"}
                /\ result.ret = Raised
             \/ result.op = "test_data_model_generation" /\ result.ret = FALSE

C19_Witness ==
    /\ GenerateRaised /\ env.llm = "rate_limit" /\ pc = "done"
    /\ result.op = "test_data_model_generation"

(***************************************************************************)
(* Header nodes (SpecLayout)                                               *)
(***************************************************************************)
\* The header nodes of a diagram, by their place in the cell list, which is the
\* order of the BusinessEntities in the model.
HeaderIdx(out) == {n \in 1..Len(out.cells) : out.cells[n].role = "header"}

\* C20: for a model with several BusinessEntities, generate_drawio gives each
\* entity header node the same fixed x and a y that strictly increases with the
\* entity's position in model order, so no two header nodes share a position.
C20_HeaderPositions ==
    (LastCallOnModel /\ output # Raised) =>
        \A a \in HeaderIdx(output) : \A b \in HeaderIdx(output) :
            a < b =>
                /\ output.cells[a].x = ENTITY_X /\ output.cells[b].x = ENTITY_X
                /\ output.cells[a].y < output.cells[b].y

(***************************************************************************)
(* The renderers' input (SpecValidate)                                     *)
(***************************************************************************)
RenderOps ==
    {"generate_drawio", "generate_html_report", "generate_data_model_report", "analyze_entity"}

\* The model the run started with.
GivenModel == ApplyDefects(BaseModel, defects)

Pick(seq, S) ==
    LET at == S \cap (1..Len(seq))
    IN  [n \in 1..Cardinality(at) |->
            seq[CHOOSE k \in at : Cardinality({x \in at : x < k}) = n - 1]]

\* The labels of the cells at the positions in S, in emission order.
CellValues(out, S) == Pick([k \in 1..Len(out.cells) |-> out.cells[k].value], S)

\* The cells emitted for the entity whose header is cell h: those after h and
\* before the next header.
Section(out, h) ==
    {k \in (h + 1)..Len(out.cells) : \A n \in HeaderIdx(out) : ~(h < n /\ n <= k)}

FieldNames(dm, i) ==
    [j \in 1..Len(EntityFields(dm, i)) |-> EntityFields(dm, i)[j].v.name.v]

\* The diagram's partition read off the cells: the standalone nodes of each
\* BusinessEntity are its fields whose fieldGroup is one of ungrouped, in field
\* order; its group nodes are the other fieldGroup values, and the children of
\* each group node are the fields that carry its label, in field order.
PartitionedBy(ungrouped) ==
    \A h \in HeaderIdx(output) :
        LET cells == output.cells
            i == EntityCalled(data_model, cells[h].value)
            fs == EntityFields(data_model, i)
            sec == Section(output, h)
            groups == {g \in sec : cells[g].role = "group"}
        IN  /\ CellValues(output, {k \in sec : cells[k].role = "field"})
                 = Pick(FieldNames(data_model, i),
                        {j \in 1..Len(fs) : fs[j].v.fieldGroup \in ungrouped})
            /\ {JStr(cells[g].value) : g \in groups}
                 = {fs[j].v.fieldGroup : j \in 1..Len(fs)} \ ungrouped
            /\ \A g \in groups :
                 CellValues(output, {k \in sec : /\ cells[k].role = "child"
                                                 /\ g \in SourcesOf(output, cells[k])})
                   = Pick(FieldNames(data_model, i),
                          {j \in 1..Len(fs) : fs[j].v.fieldGroup = JStr(cells[g].value)})

\* C21 as claimed: a field is standalone exactly when its fieldGroup is null or
\* '_meta' and grouped exactly when it is any other value, the empty string
\* included; both partitions keep the field order.
C21_AsClaimed ==
    (LastCallOnModel /\ output # Raised) => PartitionedBy({JNull, JStr("_meta")})

\* C21 (amended): a field is standalone exactly when its fieldGroup is null,
\* the empty string or '_meta', and grouped exactly when it is any other
\* string; the standalone fields and the fields of each group keep their
\* relative order from the entity's field sequence.
C21_Partition ==
    (LastCallOnModel /\ output # Raised) => PartitionedBy({JNull, JStr(""), JStr("_meta")})

C21_Witness ==
    /\ LastCallOnModel /\ output # Raised
    /\ \E h \in HeaderIdx(output) :
         LET i == EntityCalled(data_model, output.cells[h].value)
             fs == EntityFields(data_model, i)
             sec == Section(output, h)
         IN  /\ \E p \in 1..Len(fs) : \E q \in 1..Len(fs) : \E r \in 1..Len(fs) :
                  /\ p < q /\ q < r
                  /\ fs[p].v.fieldGroup = JStr("Phone")
                  /\ fs[q].v.fieldGroup = JStr("")
                  /\ fs[r].v.fieldGroup = JStr("Phone")
                  /\ \E k \in sec : /\ output.cells[k].role = "field"
                                    /\ output.cells[k].value = fs[q].v.name.v
                  /\ \E g \in sec :
                       /\ output.cells[g].role = "group"
                       /\ CellValues(output, {k \in sec : /\ output.cells[k].role = "child"
                                                          /\ g \in SourcesOf(output, output.cells[k])})
                            = <<fs[p].v.name.v, fs[r].v.name.v>>

(***************************************************************************)
(* Field groups and their children (SpecLayout)                            *)
(***************************************************************************)
\* The children of the group node at position g, by position, and the
\* positions of a set in increasing order.
ChildrenOf(out, g) ==
    {k \in 1..Len(out.cells) : /\ out.cells[k].role = "child"
                               /\ g \in SourcesOf(out, out.cells[k])}
Ordered(S) == [n \in 1..Cardinality(S) |-> CHOOSE k \in S : Cardinality({x \in S : x < k}) = n - 1]

\* The vertical cursor when the cell at position k is emitted: the start row
\* plus the rows of every left-column node emitted before it, one for a
\* standalone field and max(1, N) for a group of N children, which is one for
\* every field node, one for every group node without children and one for
\* every child of a group node.
CursorAt(out, k) ==
    LET before == {n \in 1..(k - 1) : n <= Len(out.cells)}
        groups == {n \in before : out.cells[n].role = "group"}
    IN  FIELD_Y_START
          + FIELD_SPACING
              * (Cardinality({n \in before : out.cells[n].role = "field"})
                 + Cardinality({g \in groups : ChildrenOf(out, g) = {}})
                 + Cardinality(UNION {ChildrenOf(out, g) : g \in groups}))

\* The group labels of an entity in first-seen order.
FirstSeenLabels(dm, i) ==
    LET fs == EntityFields(dm, i)
    IN  Pick([j \in 1..Len(fs) |-> fs[j].v.fieldGroup],
             {j \in 1..Len(fs) : /\ HasGroupLabel(fs[j])
                                 /\ \A p \in 1..(j - 1) : fs[p].v.fieldGroup # fs[j].v.fieldGroup})

\* C22: for every field group of a BusinessEntity, in first-seen order,
\* generate_drawio emits exactly one group node at the current vertical cursor
\* and one child node per member field at x = 175, the k-th child (k = 0, 1,
\* ...) at y = group y + k * 28, so that the first child has the group node's
\* y; every child is the target of exactly one edge, which comes from its own
\* group node.
C22_GroupChildren ==
    (LastCallOnModel /\ output # Raised) =>
        \A h \in HeaderIdx(output) :
            LET cells == output.cells
                i == EntityCalled(data_model, cells[h].value)
                sec == Section(output, h)
                groups == {g \in sec : cells[g].role = "group"}
            IN  /\ [n \in 1..Cardinality(groups) |-> JStr(CellValues(output, groups)[n])]
                     = FirstSeenLabels(data_model, i)
                /\ \A g \in groups :
                     LET children == Ordered(ChildrenOf(output, g))
                     IN  /\ cells[g].y = CursorAt(output, g)
                         /\ Len(children) = GroupSize(data_model, i, JStr(cells[g].value))
                         /\ \A n \in 1..Len(children) :
                              LET c == cells[children[n]]
                              IN  /\ children[n] \in sec
                                  /\ c.x = 175
                                  /\ c.y = cells[g].y + (n - 1) * 28
                                  /\ Cardinality(IncomingEdges(output, c.id)) = 1
                                  /\ SourcesOf(output, c) = {g}

C22_Witness ==
    /\ LastCallOnModel /\ output # Raised
    /\ \E h \in HeaderIdx(output) :
         LET sec == Section(output, h)
         IN  \E g1 \in sec : \E g2 \in sec :
                 /\ output.cells[g1].role = "group" /\ output.cells[g2].role = "group"
                 /\ g1 < g2
                 /\ Cardinality(ChildrenOf(output, g1)) = 2
                 /\ output.cells[g2].y = output.cells[g1].y + 2 * FIELD_SPACING
                 /\ output.cells[g1].y > FIELD_Y_START
                 /\ \E c \in ChildrenOf(output, g1) :
                        output.cells[c].y = output.cells[g1].y + FIELD_SPACING

(***************************************************************************)
(* Node styles (SpecLayout)                                                *)
(***************************************************************************)
\* The field names of the models whose lower-cased spelling contains 'id',
\* 'pidm' or 'cwid': personId, SPIDM (spidm), cwid and Valid (valid).
IdentifierNames == {"personId", "SPIDM", "cwid", "Valid"}

IsCustomField(f) == "isCustom" \in DOMAIN f.v /\ f.v["isCustom"] = JBool(TRUE)

\* C23: get_field_style follows a fixed precedence for every field,
\* standalone or group child: a field whose isCustom is true gets the
\* 'identifier' style whatever its group, name or isLookup; otherwise a field
\* of the '_meta' group or whose lower-cased name contains 'id', 'pidm' or
\* 'cwid' gets 'identifier'; otherwise it gets 'general attribute'.
C23_StylePrecedence ==
    (LastCallOnModel /\ output # Raised) =>
        \A k \in NodeIdx(output) :
            LET c == output.cells[k]
                f == FieldCalled(data_model, c.value)
            IN  c.role \in {"field", "child"} =>
                    c.style = IF IsCustomField(f) THEN "identifier"
                              ELSE IF \/ f.v.fieldGroup = JStr("_meta")
                                      \/ c.value \in IdentifierNames
                                   THEN "identifier"
                                   ELSE "general_attribute"

C23_Witness ==
    /\ LastCallOnModel /\ output # Raised
    /\ \E k \in NodeIdx(output) :
         LET c == output.cells[k]
             f == FieldCalled(data_model, c.value)
         IN  /\ c.role = "child"
             /\ c.value = "email"
             /\ IsCustomField(f)
             /\ f.v.isLookup = JBool(TRUE)
             /\ c.style = "identifier"

(***************************************************************************)
(* The container (SpecLayout)                                              *)
(***************************************************************************)
\* The rows of a model as the claim counts them: standalone fields plus, for
\* every group of every BusinessEntity, max(1, group size).
RowsOfModel(dm) ==
    LET es == ModelEntities(dm)
        PerEntity(i) ==
            LET fs == EntityFields(dm, i)
                labels == FirstSeenLabels(dm, i)
            IN  Cardinality({j \in 1..Len(fs) : ~HasGroupLabel(fs[j])})
                  + SumSeq([n \in 1..Len(labels) |-> Max(1, GroupSize(dm, i, labels[n]))])
    IN  SumSeq([i \in 1..Len(es) |-> IF i \in BusinessIdx(dm) THEN PerEntity(i) ELSE 0])

ContainerCell(out) == out.cells[CHOOSE k \in 1..Len(out.cells) : out.cells[k].role = "container"]

Inside(c, box) ==
    /\ box.x <= c.x /\ c.x + c.width <= box.x + box.width
    /\ box.y <= c.y /\ c.y + c.height <= box.y + box.height

\* C24: the container's size is a function of total_rows = standalone fields
\* + sum over groups of max(1, group size) across BusinessEntities, with a
\* minimum height of 806 and a minimum width of 729; total_rows equals the
\* number of rows the drawing pass advances its vertical cursor by; every
\* field, group and child node lies inside the container rectangle.
C24_Container ==
    (LastCallOnModel /\ output # Raised) =>
        LET box == ContainerCell(output)
            rows == RowsOfModel(data_model)
        IN  /\ output.total_rows = rows
            /\ box.height = Max(806, 165 + (rows + 2) * 28 - 80 + 50)
            /\ box.width = Max(729, 175 + 146 + 50 + 121)
            /\ box.height >= 806 /\ box.width >= 729
            /\ output.current_field_y = FIELD_Y_START + output.total_rows * FIELD_SPACING
            /\ CursorAt(output, Len(output.cells) + 1) = output.current_field_y
            /\ \A k \in NodeIdx(output) :
                 output.cells[k].role \in {"field", "group", "child"} =>
                     Inside(output.cells[k], box)

C24_Witness ==
    /\ LastCallOnModel /\ output # Raised
    /\ data_model = TallModel
    /\ output.total_rows = 28
    /\ output.current_field_y = 949
    /\ ContainerCell(output).height = 975
    /\ \E k \in NodeIdx(output) :
         /\ output.cells[k].role = "child"
         /\ output.cells[k].y + output.cells[k].height > CONTAINER_Y + MIN_CONTAINER_HEIGHT

(***************************************************************************)
(* Report and diagram (SpecReport)                                         *)
(***************************************************************************)
\* The entity of the model the run started with, its fields and their names.
ReportEntity == data_model.v.entities.v[1]
ReportEntityFields == ReportEntity.v.fields.v
ReportFieldNames == [j \in 1..Len(ReportEntityFields) |-> ReportEntityFields[j].v.name.v]

\* The positions of the fields the report files under the categories in cats,
\* and under the per-group cluster of label.
FiledUnder(analysis, cats) ==
    {n \in 1..Len(analysis.categories) : analysis.categories[n].category \in cats}
ClusterOf(analysis, label) ==
    {n \in FiledUnder(analysis, {"group"}) : analysis.categories[n].group = label}

StandaloneCategories == {"identifier", "general", "meta"}

\* C25: analyze_entity and generate_drawio use the same partition rule: for
\* every entity and every field, the report files the field under the cluster
\* of group g exactly when the layout treats it as a grouped field of group g,
\* and as an identifier, a general attribute or a meta field exactly when the
\* layout treats it as standalone; each field lands in exactly one report
\* category.  Stated on the rule (after analyze_entity, for entities of either
\* type) and on the diagram (after generate_drawio, for a BusinessEntity).
C25_SamePartition ==
    /\ (result.op = "analyze_entity" /\ result.ret # Raised) =>
          LET fields == FieldsOf(ReportEntity)
              standalone == StandaloneFields(fields)
          IN  \A n \in 1..Len(fields) :
                  LET c == result.ret.categories[n]
                      members == GroupFields(fields, c.group)
                  IN  /\ c.category \in StandaloneCategories \cup {"group"}
                      /\ c.category = "group" <=> IsGrouped(fields[n])
                      /\ c.category = "group" =>
                            \E m \in 1..Len(members) : members[m] = fields[n]
                      /\ c.category \in StandaloneCategories <=>
                            \E m \in 1..Len(standalone) : standalone[m] = fields[n]
    /\ (result.op = "generate_drawio" /\ result.wrapped # Raised
            /\ IsBusinessEntity(ReportEntity)) =>
          LET analysis == AnalyzeEntity(ReportEntity)
              out == result.wrapped
              groups == {g \in 1..Len(out.cells) : out.cells[g].role = "group"}
          IN  /\ analysis # Raised
              /\ CellValues(out, {k \in 1..Len(out.cells) : out.cells[k].role = "field"})
                   = Pick(ReportFieldNames, FiledUnder(analysis, StandaloneCategories))
              /\ {JStr(out.cells[g].value) : g \in groups}
                   = {analysis.categories[n].group : n \in FiledUnder(analysis, {"group"})}
              /\ \A g \in groups :
                   CellValues(out, ChildrenOf(out, g))
                     = Pick(ReportFieldNames, ClusterOf(analysis, JStr(out.cells[g].value)))

C25_Witness ==
    /\ result.op = "generate_drawio" /\ result.wrapped # Raised
    /\ IsBusinessEntity(ReportEntity)
    /\ Len(ReportEntityFields) = 2
    /\ ReportEntityFields[1].v.fieldGroup = JStr("_meta")
    /\ ReportEntityFields[2].v.fieldGroup = JStr("Phone")
    /\ AnalyzeEntity(ReportEntity).categories[1].category = "meta"
    /\ AnalyzeEntity(ReportEntity).categories[2].category = "group"
    /\ \E k \in 1..Len(result.wrapped.cells) :
         /\ result.wrapped.cells[k].role = "field"
         /\ result.wrapped.cells[k].value = ReportFieldNames[1]
    /\ \E k \in 1..Len(result.wrapped.cells) :
         /\ result.wrapped.cells[k].role = "child"
         /\ result.wrapped.cells[k].value = ReportFieldNames[2]

(***************************************************************************)
(* Requirement traceability (SpecReport)                                   *)
(***************************************************************************)
RequirementIdsOf(n) == ReportEntityFields[n].v.requirementIds.v
SourceRequirementsOf(n) == ReportEntityFields[n].v.sourceRequirements.v

\* The requirement ids some field of the entity refers to, and the fields that
\* refer to id.
ReferencedIds ==
    UNION {{RequirementIdsOf(n)[p] : p \in 1..Len(RequirementIdsOf(n))} :
              n \in 1..Len(ReportEntityFields)}
Referring(id) ==
    {n \in 1..Len(ReportEntityFields) :
        \E p \in 1..Len(RequirementIdsOf(n)) : RequirementIdsOf(n)[p] = id}

\* The fields requirement_to_fields lists under id, in list order.
ListedFields(analysis, id) ==
    LET listed == analysis.requirement_to_fields
    IN  Pick([m \in 1..Len(listed) |-> listed[m][2]],
             {m \in 1..Len(listed) : listed[m][1] = id})

\* The texts of the models that start with an id and a colon or contain the
\* id, and the text that names the standard requirement in lower case only.
NamesTheId ==
    { <<JStr("FR-001"), JStr("FR-001: text")>>, <<JStr("FR-002"), JStr("see FR-002")>> }
NamesStandard == { <<JStr("STANDARD"), JStr("Standard meta field")>> }

\* The first sourceRequirements entry that matches id, scanning the fields that
\* refer to id in field order and the entries of each in list order; what the
\* card shows when there is none.
FirstExcerpt(id, matches) ==
    LET holders == {n \in Referring(id) :
                       \E q \in 1..Len(SourceRequirementsOf(n)) :
                           <<id, SourceRequirementsOf(n)[q]>> \in matches}
    IN  IF holders = {} THEN JStr("No description available")
        ELSE LET n == CHOOSE n \in holders : \A x \in holders : n <= x
                 hits == {q \in 1..Len(SourceRequirementsOf(n)) :
                             <<id, SourceRequirementsOf(n)[q]>> \in matches}
             IN  SourceRequirementsOf(n)[CHOOSE q \in hits : \A x \in hits : q <= x]

\* The excerpts of the claim on the two results: the text analyze_entity
\* records and the text the card of a BusinessEntity shows.
ExcerptsAre(matches) ==
    /\ (result.op = "analyze_entity" /\ result.ret # Raised) =>
          /\ result.ret.requirement_ids = ReferencedIds
          /\ \A id \in ReferencedIds :
               RequirementText(result.ret, id) = FirstExcerpt(id, matches)
    /\ (result.op = "generate_data_model_report" /\ result.ret # Raised
            /\ IsBusinessEntity(ReportEntity)) =>
          result.ret.requirement_texts[1]
            = {<<id, FirstExcerpt(id, matches)>> : id \in ReferencedIds}

\* C26 as claimed: for each requirement id a field refers to, analyze_entity
\* lists exactly the fields whose requirementIds contain it, each once, in
\* field order, and takes as excerpt the first sourceRequirements entry whose
\* text is prefixed by or contains the id; the report shows 'No description
\* available' when no entry matches.
C26_AsClaimed ==
    /\ (result.op = "analyze_entity" /\ result.ret # Raised) =>
          \A id \in ReferencedIds : ListedFields(result.ret, id) = Ordered(Referring(id))
    /\ ExcerptsAre(NamesTheId)

\* C26 (amended): analyze_entity lists under each id the fields whose
\* requirementIds contain it, in field order, a field once for every time its
\* requirementIds list the id; the excerpt is the first sourceRequirements
\* entry, scanning the fields that refer to the id in order, whose text is
\* prefixed by or contains the id or, for the id 'STANDARD', contains
\* 'standard' in any letter case; the report shows 'No description available'
\* when no entry matches.
C26_Traceability ==
    /\ (result.op = "analyze_entity" /\ result.ret # Raised) =>
          \A id \in ReferencedIds :
              LET listed == ListedFields(result.ret, id)
              IN  /\ \A m \in 1..(Len(listed) - 1) : listed[m] <= listed[m + 1]
                  /\ \A n \in 1..Len(ReportEntityFields) :
                       Cardinality({m \in 1..Len(listed) : listed[m] = n})
                         = Cardinality({p \in 1..Len(RequirementIdsOf(n)) :
                                           RequirementIdsOf(n)[p] = id})
    /\ ExcerptsAre(NamesTheId \cup NamesStandard)

C26_Witness ==
    /\ result.op = "generate_data_model_report" /\ result.ret # Raised
    /\ IsBusinessEntity(ReportEntity)
    /\ Len(ReportEntityFields) = 2
    /\ RequirementIdsOf(1) = <<JStr("FR-002")>>
    /\ SourceRequirementsOf(1) = <<JStr("other")>>
    /\ RequirementIdsOf(2) = <<JStr("FR-001"), JStr("FR-001")>>
    /\ result.ret.requirement_texts[1]
         = { <<JStr("FR-001"), JStr("FR-001: text")>>,
             <<JStr("FR-002"), JStr("No description available")>> }
    /\ ListedFields(result.ret.entity_analyses[1], JStr("FR-001")) = <<2, 2>>

\* A single missing required key: the input is the valid base model with one
\* key deleted and nothing else changed.
MissingKey(d) == defects = {d} /\ d.op = "delete" /\ d.shape

\* C27: for a model that is valid except for a single missing required key (of
\* one entity, one field, one relationship, or the top level), the error list
\* validate_data_model_structure returns has length exactly 1.
C27_OneErrorPerMissingKey ==
    ValidatorRan => \A d \in AllDefects : MissingKey(d) => Len(result.ret.errors) = 1

\* The BusinessEntities among the entities validate_data_model_structure reads:
\* those under the top-level key 'entities'.
ValidatedBusinessEntities(dm) == SelectSeq(PyGet(dm, "entities", JList(<<>>)).v, IsBusinessEntity)

\* C28: a model that validate_data_model_structure accepts (is_valid = True),
\* passed unchanged to generate_drawio, yields one header node for each
\* BusinessEntity among the entities the validator read in that model.
C28_SameShape ==
    (result.op = "generate_drawio" /\ ValidateDataModelStructure(data_model).is_valid) =>
        /\ result.ret # Raised
        /\ Cardinality(HeaderIdx(result.ret)) = Len(ValidatedBusinessEntities(data_model))

\* The cells emitted after the two reserved ones, by kind.
IconIdx(out) == {k \in 1..Len(out.cells) : out.cells[k].role = "icon"}
NodeIdsBefore(out, k) == {out.cells[n].id : n \in {n \in NodeIdx(out) : n < k}}

\* C29: in every output of generate_drawio the cell ids are pairwise distinct:
\* the reserved root ids 0 and 1, then consecutive integers from 2 in emission
\* order for the container, the legend labels, the nodes, the edges and the
\* lookup markers; the source and the target of every edge are ids of node
\* cells emitted before that edge in the same output.
C29_DistinctIds ==
    LastCallOnModel =>
        LET cells == output.cells
        IN  /\ Len(cells) >= 2 + 1 + Len(LabelSpecs)
            /\ \A k \in 1..Len(cells) : \A n \in 1..Len(cells) :
                   k # n => cells[k].id # cells[n].id
            /\ \A k \in 1..Len(cells) : cells[k].id = k - 1
            /\ cells[1].role = "root" /\ cells[2].role = "root"
            /\ cells[FIRST_ID + 1].role = "container"
            /\ \A k \in 1..Len(cells) :
                   /\ cells[k].role = "root" <=> k <= 2
                   /\ cells[k].role = "container" <=> k = 3
                   /\ cells[k].role = "legend" <=> k \in 4..(3 + Len(LabelSpecs))
                   /\ k > 3 + Len(LabelSpecs) => cells[k].role \in NodeRoles \cup {"edge", "icon"}
            /\ \A e \in EdgeIdx(output) :
                   /\ cells[e].source \in NodeIdsBefore(output, e)
                   /\ cells[e].target \in NodeIdsBefore(output, e)
                   /\ cells[e].source # cells[e].target

C29_Witness ==
    /\ LastCallOnModel
    /\ Cardinality(HeaderIdx(output)) = 2
    /\ IconIdx(output) # {}
    /\ \E e \in EdgeIdx(output) : \E g \in NodeIdx(output) : \E c \in NodeIdx(output) :
         /\ output.cells[g].role = "group" /\ output.cells[c].role = "child"
         /\ output.cells[e].source = output.cells[g].id
         /\ output.cells[e].target = output.cells[c].id
         /\ g < c /\ c < e
    /\ output.cells[Len(output.cells)].id = Len(output.cells) - 1
    /\ Len(output.cells) > 12

\* The nodes that take rows: the left column holds the standalone fields and
\* the group nodes, the right column the children of the groups.
RowIdx(out) == {k \in NodeIdx(out) : out.cells[k].role \in {"field", "group", "child"}}
LeftIdx(out) == {k \in NodeIdx(out) : out.cells[k].role \in {"field", "group"}}
ChildIdx(out) == {k \in NodeIdx(out) : out.cells[k].role = "child"}

\* The rectangles of two cells share a point of their interiors.
Overlap(a, b) ==
    /\ a.x < b.x + b.width /\ b.x < a.x + a.width
    /\ a.y < b.y + b.height /\ b.y < a.y + a.height

\* C30: in every output of generate_drawio no two field, group or child nodes
\* overlap, across all BusinessEntities: the rows of a later entity lie below
\* those of every earlier one (the vertical cursor is not reset or decreased
\* between entities), consecutive rows of the left column (standalone fields
\* and group nodes) are at least 28 apart for a node height of 20, and the
\* children of a group lie strictly above the row of the next group or field.
C30_NoOverlap ==
    LastCallOnModel =>
        LET cells == output.cells
        IN  /\ \A a \in RowIdx(output) : \A b \in RowIdx(output) :
                   a # b => ~Overlap(cells[a], cells[b])
            /\ \A a \in RowIdx(output) : cells[a].height = 20
            /\ \A a \in LeftIdx(output) : \A b \in LeftIdx(output) :
                   a < b => cells[b].y >= cells[a].y + 28
            /\ \A c \in ChildIdx(output) : \A k \in LeftIdx(output) :
                   c < k => cells[c].y < cells[k].y
            /\ \A h \in HeaderIdx(output) :
                   \A a \in RowIdx(output) : \A b \in RowIdx(output) :
                       (a < h /\ h < b) => cells[b].y >= cells[a].y + 28

C30_Witness ==
    /\ LastCallOnModel
    /\ \E g \in LeftIdx(output) : \E c \in ChildIdx(output) :
       \E h \in HeaderIdx(output) : \E f \in LeftIdx(output) :
         /\ g \in SourcesOf(output, output.cells[c])
         /\ c < h /\ h < f
         /\ output.cells[c].y >= output.cells[g].y + 28
         /\ output.cells[f].role = "field"
         /\ output.cells[f].y = output.cells[c].y + 28
    /\ \E g \in LeftIdx(output) : \E k \in LeftIdx(output) :
         /\ output.cells[g].role = "group" /\ output.cells[k].role = "group"
         /\ g < k
         /\ output.cells[k].y = output.cells[g].y + 2 * 28

====
